---- MODULE Spec2Model ----
(***************************************************************************)
(* Global Namespace Clustering Engine of docfx-to-wikijs.                  *)
(*                                                                         *)
(* Strings are sequences of one-character strings, so that tokenizing,     *)
(* sanitizing, lower-casing and suffixing act on characters as the Python  *)
(* code does.  A relative path is a sequence of segments (the text between *)
(* forward slashes); the last segment of a file path is the file stem and  *)
(* the ".md" extension is implicit (POSIX pathlib, forward slashes only).  *)
(***************************************************************************)
EXTENDS Integers, Sequences, FiniteSets, TLC

(***************************************************************************)
(* Characters                                                              *)
(***************************************************************************)
UpperSeq == <<"A","B","C","D","E","F","G","H","I","J","K","L","M",
              "N","O","P","Q","R","S","T","U","V","W","X","Y","Z">>
LowerSeq == <<"a","b","c","d","e","f","g","h","i","j","k","l","m",
              "n","o","p","q","r","s","t","u","v","w","x","y","z">>
DigitSeq == <<"0","1","2","3","4","5","6","7","8","9">>

Range(f) == {f[i] : i \in DOMAIN f}

UpperSet == Range(UpperSeq)
LowerSet == Range(LowerSeq)
DigitSet == Range(DigitSeq)
LetterSet == UpperSet \cup LowerSet

IndexIn(seq, c) == CHOOSE i \in DOMAIN seq : seq[i] = c

\* str.lower() / str.upper() on one character
ToLowerChar(c) == IF c \in UpperSet THEN LowerSeq[IndexIn(UpperSeq, c)] ELSE c
ToUpperChar(c) == IF c \in LowerSet THEN UpperSeq[IndexIn(LowerSeq, c)] ELSE c

StrLower(s) == [i \in DOMAIN s |-> ToLowerChar(s[i])]
StrUpper(s) == [i \in DOMAIN s |-> ToUpperChar(s[i])]

\* str.isupper(): at least one cased character and no lowercase one
StrIsUpper(s) == /\ \E i \in DOMAIN s : s[i] \in UpperSet
                 /\ \A i \in DOMAIN s : s[i] \notin LowerSet

\* s[i:] with a 1-based index
Drop(s, i) == SubSeq(s, i, Len(s))

RECURSIVE RunLen(_, _, _)
\* length of the longest run of characters of S in s starting at position i
RunLen(s, i, S) ==
    IF i > Len(s) \/ s[i] \notin S THEN 0 ELSE 1 + RunLen(s, i + 1, S)

RECURSIVE Flatten(_)
\* "".join(parts)
Flatten(parts) == IF parts = <<>> THEN <<>> ELSE Head(parts) \o Flatten(Tail(parts))

RECURSIVE FilterChars(_, _)
FilterChars(s, S) ==
    IF s = <<>> THEN <<>>
    ELSE (IF Head(s) \in S THEN <<Head(s)>> ELSE <<>>) \o FilterChars(Tail(s), S)

\* lexicographic order on strings by code point (Python's str comparison)
CharOrder == DigitSeq \o UpperSeq \o <<"_">> \o LowerSeq
CharRank(c) == IF c \in Range(CharOrder) THEN IndexIn(CharOrder, c) ELSE 0

RECURSIVE StrLess(_, _)
StrLess(a, b) ==
    IF b = <<>> THEN FALSE
    ELSE IF a = <<>> THEN TRUE
    ELSE IF Head(a) = Head(b) THEN StrLess(Tail(a), Tail(b))
    ELSE CharRank(Head(a)) < CharRank(Head(b))

(***************************************************************************)
(* Tokenizer (src/src/tokenizer.py)                                        *)
(***************************************************************************)
\* ([A-Z]{2,}[0-9]*)(?![a-z]) at position i: length of the match, 0 if none
MatchAcronym(s, i) ==
    LET m == RunLen(s, i, UpperSet)
        d == RunLen(s, i + m, DigitSet)
        nextLower == i + m + d <= Len(s) /\ s[i + m + d] \in LowerSet
    IN  IF m < 2 THEN 0
        ELSE IF ~nextLower THEN m + d
        ELSE IF d >= 1 THEN m + d - 1
        ELSE IF m >= 3 THEN m - 1
        ELSE 0

\* ([A-Z][a-z]+) then the digit rule of step 2: length of the token, 0 if none
MatchTitleCase(s, i) ==
    LET l == RunLen(s, i + 1, LowerSet)
        w == 1 + l
        d == RunLen(s, i + w, DigitSet)
    IN  IF i > Len(s) \/ s[i] \notin UpperSet \/ l < 1 THEN 0
        ELSE IF d = 0 THEN w
        ELSE IF i + w + d <= Len(s) /\ s[i + w + d] \in UpperSet THEN w
        ELSE w + d

\* ([0-9]+[A-Z]+)(?![a-z])
MatchDigitAcronym(s, i) ==
    LET d == RunLen(s, i, DigitSet)
        m == RunLen(s, i + d, UpperSet)
        nextLower == i + d + m <= Len(s) /\ s[i + d + m] \in LowerSet
    IN  IF d < 1 \/ m < 1 THEN 0
        ELSE IF ~nextLower THEN d + m
        ELSE IF m >= 2 THEN d + m - 1
        ELSE 0

\* ([0-9]+[a-zA-Z]+?)(?=[A-Z][a-z]|$)
MatchDigitMixed(s, i) ==
    LET d == RunLen(s, i, DigitSet)
        l == RunLen(s, i + d, LetterSet)
        Stops(k) == LET p == i + d + k
                    IN  \/ p > Len(s)
                        \/ /\ p + 1 <= Len(s)
                           /\ s[p] \in UpperSet
                           /\ s[p + 1] \in LowerSet
        ks == {k \in 1..l : Stops(k)}
    IN  IF d < 1 \/ ks = {} THEN 0
        ELSE d + (CHOOSE k \in ks : \A k2 \in ks : k <= k2)

\* the first pattern that matches wins: the first positive length, else 0
FirstMatch(lens) ==
    IF \E k \in DOMAIN lens : lens[k] > 0
    THEN lens[CHOOSE k \in DOMAIN lens :
                 lens[k] > 0 /\ \A j \in 1..(k - 1) : lens[j] = 0]
    ELSE 0

\* the token that starts at position i: patterns 1 to 4, then the fallbacks
TokenLen(s, i) ==
    FirstMatch(<<MatchAcronym(s, i), MatchTitleCase(s, i), MatchDigitAcronym(s, i),
                 MatchDigitMixed(s, i), RunLen(s, i, UpperSet \cup DigitSet),
                 RunLen(s, i, LowerSet)>>)

RECURSIVE SplitFrom(_, _)
RECURSIVE SplitStep(_, _, _)
\* the while loop of _split_camel_case from position i
SplitFrom(s, i) ==
    IF i > Len(s) THEN <<>> ELSE SplitStep(s, i, TokenLen(s, i))

\* a token of length n at position i, or a skipped character
SplitStep(s, i, n) ==
    IF n = 0 THEN SplitFrom(s, i + 1)
    ELSE <<SubSeq(s, i, i + n - 1)>> \o SplitFrom(s, i + n)

split_camel_case(s) == SplitFrom(s, 1)

\* the backtick character of a generic-arity marker (one atom of a string)
Backtick == "BT"

RECURSIVE StripArity(_)
\* re.sub: every backtick followed by digits is deleted
StripArity(s) ==
    IF s = <<>> THEN <<>>
    ELSE IF Head(s) = Backtick /\ RunLen(s, 2, DigitSet) >= 1
         THEN StripArity(Drop(s, 2 + RunLen(s, 2, DigitSet)))
         ELSE <<Head(s)>> \o StripArity(Tail(s))

RECURSIVE SplitParts(_, _)
\* re.split(r"[+_]", text): cur is the part being collected
SplitParts(s, cur) ==
    IF s = <<>> THEN <<cur>>
    ELSE IF Head(s) \in {"+", "_"} THEN <<cur>> \o SplitParts(Tail(s), <<>>)
    ELSE SplitParts(Tail(s), Append(cur, Head(s)))

RECURSIVE TokenizeParts(_)
TokenizeParts(parts) ==
    IF parts = <<>> THEN <<>>
    ELSE (IF Head(parts) # <<>> THEN split_camel_case(Head(parts)) ELSE <<>>)
         \o TokenizeParts(Tail(parts))

tokenize(text) == TokenizeParts(SplitParts(StripArity(text), <<>>))

(***************************************************************************)
(* Sanitizer (src/src/sanitizer.py)                                        *)
(***************************************************************************)
SafeChars == LetterSet \cup DigitSet \cup {"-"}

reserved ==
    { <<"C","O","N">>, <<"P","R","N">>, <<"A","U","X">>, <<"N","U","L">> }
    \cup { <<"C","O","M", DigitSeq[d]>> : d \in 2..10 }
    \cup { <<"L","P","T", DigitSeq[d]>> : d \in 2..10 }

\* Python's hash(token) & 0xFFFFFFFF written in hex.  str hashes are salted
\* per process (PYTHONHASHSEED): the digits depend on the process's seed and
\* on the token, and on nothing else.
PyHashHex(seed, token) == <<DigitSeq[seed + 1]>> \o StrLower(FilterChars(token, SafeChars)) \o <<DigitSeq[(Len(token) % 10) + 1]>>

Placeholder(seed, token) == <<"_">> \o PyHashHex(seed, token)

\* self.acronyms = {s.upper() for s in acronyms}
SanitizerAcronyms(acronyms) == {StrUpper(a) : a \in acronyms}

normalize(acronyms, seed, token) ==
    LET clean == FilterChars(token, SafeChars)
        upper_clean == StrUpper(clean)
        final == IF upper_clean \in SanitizerAcronyms(acronyms) THEN upper_clean
                 ELSE IF clean = upper_clean /\ Len(clean) > 1 THEN clean
                 ELSE <<ToUpperChar(Head(clean))>> \o Tail(clean)
    IN  IF clean = <<>> THEN Placeholder(seed, token)
        ELSE IF StrUpper(final) \in reserved THEN Placeholder(seed, token)
        ELSE final

(***************************************************************************)
(* Python values                                                           *)
(***************************************************************************)
None == <<"None">>     \* Python's None: equal to no string
Falsy(x) == x = None \/ x = <<>>      \* "if not x" for None or a string

\* dict helpers: a dict is a function whose domain is its key set
EmptyDict == [k \in {} |-> None]
PutKey(d, k, v) == (k :> v) @@ d
DelKey(d, k) == [x \in (DOMAIN d) \ {k} |-> d[x]]
DictGet(d, k, default) == IF k \in DOMAIN d THEN d[k] ELSE default

\* s.split(".")[-1]
RECURSIVE LastDotPart(_, _)
LastDotPart(s, cur) ==
    IF s = <<>> THEN cur
    ELSE IF Head(s) = "." THEN LastDotPart(Tail(s), <<>>)
    ELSE LastDotPart(Tail(s), Append(cur, Head(s)))

EndsWith(s, sfx) ==
    Len(s) >= Len(sfx) /\ SubSeq(s, Len(s) - Len(sfx) + 1, Len(s)) = sfx

(***************************************************************************)
(* Items and the metadata index (src/src/item_info.py, metadata_index.py)  *)
(***************************************************************************)
ItemInfo(uid, kind, name, full_name, namespace, inheritance, implements) ==
    [uid |-> uid, kind |-> kind, name |-> name, full_name |-> full_name,
     namespace |-> namespace, inheritance |-> inheritance,
     implements |-> implements]

\* kind.lower() in {class, struct, interface, enum, delegate}; kinds are
\* written in lower case here
is_type_kind(kind) == kind \in {"class", "struct", "interface", "enum", "delegate"}

should_use_global_dir(namespace) ==
    namespace = None \/ namespace = <<"G","l","o","b","a","l">>

get_base_class(uid_to_item, uid) ==
    IF uid \notin DOMAIN uid_to_item THEN None
    ELSE LET inh == uid_to_item[uid].inheritance
         IN  IF inh # <<>> THEN inh[Len(inh)] ELSE None

get_interfaces(uid_to_item, uid) ==
    IF uid \notin DOMAIN uid_to_item THEN <<>> ELSE uid_to_item[uid].implements

(***************************************************************************)
(* Analyzer (src/src/analyzer.py)                                          *)
(***************************************************************************)
NormTokens(cfg, seed, name) ==
    LET toks == tokenize(name)
    IN  [i \in DOMAIN toks |-> normalize(cfg.acronyms, seed, toks[i])]

\* analyze(): the items the analyzer processes
AnalyzedUids(uid_to_item) ==
    {u \in DOMAIN uid_to_item :
        LET ns == uid_to_item[u].namespace
        IN  Falsy(ns) \/ ns = <<"G","l","o","b","a","l">>}

\* _process_item: items without tokens are not counted
CountedUids(uid_to_item) ==
    {u \in AnalyzedUids(uid_to_item) : tokenize(uid_to_item[u].name) # <<>>}

\* Counter.update of _process_item: how many counted items have the token
CountOf(token_of, token) == Cardinality({u \in DOMAIN token_of : token_of[u] = token})

Counter(token_of) == [t \in Range(token_of) |-> CountOf(token_of, t)]

\* analyze(): prefix_counts and suffix_counts
analyze(uid_to_item, cfg, seed) ==
    [prefix_counts |->
        Counter([u \in CountedUids(uid_to_item) |->
                    Head(NormTokens(cfg, seed, uid_to_item[u].name))]),
     suffix_counts |->
        Counter([u \in CountedUids(uid_to_item) |->
                    NormTokens(cfg, seed, uid_to_item[u].name)
                        [Len(tokenize(uid_to_item[u].name))]])]

\* self.stop_tokens of the analyzer
AnalyzerStopTokens(cfg, seed) ==
    {normalize(cfg.acronyms, seed, t) : t \in cfg.rules.stop_tokens}

\* candidates sorted by (count DESC, token ASC), the first k of them
get_top_prefixes(counts, stop_tokens, k, min_size) ==
    LET cands == {t \in DOMAIN counts : counts[t] >= min_size /\ t \notin stop_tokens}
        Before(a, b) == counts[a] > counts[b] \/ (counts[a] = counts[b] /\ StrLess(a, b))
    IN  {t \in cands : Cardinality({o \in cands : Before(o, t)}) < k}

get_strong_suffixes(counts, stop_tokens, min_size) ==
    {t \in DOMAIN counts : counts[t] >= min_size /\ t \notin stop_tokens}

(***************************************************************************)
(* Persistent map, in memory (src/src/global_namespace_map.py)             *)
(* gm = [mapping, meta, accessed_uids]; an entry is [path, last_seen], or  *)
(* [path] alone for what load found no last_seen for.                      *)
(***************************************************************************)
\* lookup(uid): the returned path and the map afterwards
lookup_path(gm, uid) ==
    IF uid \in DOMAIN gm.mapping THEN gm.mapping[uid].path ELSE None

lookup_map(gm, uid) ==
    IF uid \in DOMAIN gm.mapping
    THEN [gm EXCEPT !.accessed_uids = @ \cup {uid}]
    ELSE gm

\* update(uid, path)
update(gm, uid, path) ==
    LET m == IF uid \notin DOMAIN gm.mapping
             THEN PutKey(gm.mapping, uid, [path |-> path, last_seen |-> 0])
             ELSE IF gm.mapping[uid].path # path
             THEN [gm.mapping EXCEPT ![uid].path = path]
             ELSE gm.mapping
    IN  [gm EXCEPT !.mapping = m, !.accessed_uids = @ \cup {uid}]

(***************************************************************************)
(* Path resolver (src/src/global_path_resolver.py)                         *)
(* rs = [assigned_paths, path_registry, folders]                           *)
(***************************************************************************)
GlobalSeg == <<"G","l","o","b","a","l">>
PageSuffix == <<"_","P","a","g","e">>

\* hashlib.md5(uid).hexdigest()[:4] of the identifiers used here
md5hex4(uid) ==
    CASE uid = <<"u","1">> -> <<"e","4","7","7">>
      [] uid = <<"u","2">> -> <<"2","7","0","c">>
      [] uid = <<"u","3">> -> <<"5","3","2","a">>
      [] uid = <<"u","4">> -> <<"7","b","8","d">>
      [] OTHER -> <<"4","d","0","a">>

\* path.lower().replace("\\", "/")
to_canonical_path(path) == [i \in DOMAIN path |-> StrLower(path[i])]

\* the path with a suffix appended to its last segment (the file stem)
SuffixStem(path, sfx) == [path EXCEPT ![Len(path)] = @ \o sfx]

\* Path(path).parents without ".": the nearest parent first
Parents(path) == [k \in 1..(Len(path) - 1) |-> SubSeq(path, 1, Len(path) - k)]

RECURSIVE RenameBlockingFiles(_, _)
\* step 2 of _resolve_collisions: an assigned file <parent>.md makes way
RenameBlockingFiles(rs, parents) ==
    IF parents = <<>> THEN rs
    ELSE LET parent == Head(parents)
             file_key == to_canonical_path(parent)
             rs2 == IF file_key \in DOMAIN rs.path_registry
                    THEN LET existing_uid == rs.path_registry[file_key]
                             new_existing_path == SuffixStem(parent, PageSuffix)
                         IN  [rs EXCEPT
                                !.assigned_paths = PutKey(@, existing_uid, new_existing_path),
                                !.path_registry =
                                    PutKey(DelKey(@, file_key),
                                           to_canonical_path(new_existing_path),
                                           existing_uid)]
                    ELSE rs
         IN  RenameBlockingFiles(rs2, Tail(parents))

RECURSIVE SuffixUntilFree(_, _, _)
\* step 3 of _resolve_collisions: the while loop
SuffixUntilFree(path_registry, uid, desired_path) ==
    IF to_canonical_path(desired_path) \in DOMAIN path_registry
    THEN SuffixUntilFree(path_registry, uid,
                         SuffixStem(desired_path, <<"_">> \o md5hex4(uid)))
    ELSE desired_path

RECURSIVE SuffixRetries(_, _, _)
\* the number of turns the while loop of step 3 takes
SuffixRetries(path_registry, uid, desired_path) ==
    IF to_canonical_path(desired_path) \in DOMAIN path_registry
    THEN 1 + SuffixRetries(path_registry, uid,
                           SuffixStem(desired_path, <<"_">> \o md5hex4(uid)))
    ELSE 0

\* step 1 of _resolve_collisions: my file meets a registered folder
AvoidFolder(rs, desired_path) ==
    IF to_canonical_path(desired_path) \in rs.folders
    THEN SuffixStem(desired_path, PageSuffix)
    ELSE desired_path

\* steps 2 and 3 of _resolve_collisions for the path step 1 left
MakeWay(rs2, uid, d1) ==
    [rs |-> rs2, path |-> SuffixUntilFree(rs2.path_registry, uid, d1)]

MakeWayFor(rs, uid, d1) == MakeWay(RenameBlockingFiles(rs, Parents(d1)), uid, d1)

\* _resolve_collisions: [rs, path]
resolve_collisions(rs, uid, desired_path) ==
    MakeWayFor(rs, uid, AvoidFolder(rs, desired_path))

ResolutionResult(uid, final_path, winning_rule, score, cluster_key, ambiguity) ==
    [uid |-> uid, final_path |-> final_path, winning_rule |-> winning_rule,
     score |-> score, cluster_key |-> cluster_key, ambiguity |-> ambiguity]

\* _finalize after the collision step: col = [rs, path]
Register(col, gm, uid, rule, score, cluster_key, runner_ups) ==
    [rs |-> [col.rs EXCEPT
               !.assigned_paths = PutKey(@, uid, col.path),
               !.path_registry = PutKey(@, to_canonical_path(col.path), uid),
               !.folders = @ \cup {to_canonical_path(q) : q \in Range(Parents(col.path))}],
     gm |-> update(gm, uid, col.path),
     res |-> ResolutionResult(uid, col.path, rule, score, cluster_key, runner_ups)]

\* _finalize: [rs, gm, res]
finalize(rs, gm, uid, path, rule, score, cluster_key, runner_ups) ==
    Register(resolve_collisions(rs, uid, path), gm, uid, rule, score, cluster_key,
             runner_ups)

(***************************************************************************)
(* Rule engine (src/src/global_path_resolver.py)                           *)
(* ctx = [uid_to_item, analyzer, config, seed]                             *)
(***************************************************************************)
Cand(rule, key, score) == [rule |-> rule, key |-> key, score |-> score]

is_valid_hub(ctx, uid) ==
    LET name == LastDotPart(uid, <<>>)
        deny == ctx.config.rules.metadata_denylist
    IN  /\ ~(name \in deny \/ uid \in deny)
        /\ Len(name) >= 4
        /\ ~EndsWith(name, <<"B","a","s","e">>)

get_hub_name(ctx, uid) ==
    IF uid \in DOMAIN ctx.config.hub_types THEN ctx.config.hub_types[uid]
    ELSE normalize(ctx.config.acronyms, ctx.seed, LastDotPart(uid, <<>>))

\* _check_metadata_hub: a sequence holding the candidate, or empty
check_metadata_hub(ctx, item) ==
    LET base_uid == get_base_class(ctx.uid_to_item, item.uid)
        interfaces == get_interfaces(ctx.uid_to_item, item.uid)
        valid == {interfaces[i] : i \in {j \in DOMAIN interfaces : is_valid_hub(ctx, interfaces[j])}}
        hubs == IF base_uid # None /\ base_uid # <<>> /\ is_valid_hub(ctx, base_uid)
                THEN {base_uid}
                ELSE {v \in valid : \A w \in valid : w = v \/ StrLess(v, w)}
    IN  IF hubs = {} THEN <<>>
        ELSE <<Cand("metadata_hub", get_hub_name(ctx, CHOOSE h \in hubs : TRUE), 95)>>

RECURSIVE KeywordCands(_, _, _)
\* rule 7: one candidate per bucket that holds a token of the item
KeywordCands(ctx, norm_tokens, buckets) ==
    IF buckets = <<>> THEN <<>>
    ELSE LET b == Head(buckets)
             hit == \E i \in DOMAIN b.keywords :
                       normalize(ctx.config.acronyms, ctx.seed, b.keywords[i])
                           \in Range(norm_tokens)
         IN  (IF hit THEN <<Cand("keyword", b.bucket, 60)>> ELSE <<>>)
             \o KeywordCands(ctx, norm_tokens, Tail(buckets))

\* count >= 2 in rule 8
TypeFamilyMinCount == 2

\* rules 3 to 8 with the type-family rule moved to the front
RuleCands_family_first(ctx, item, norm_tokens) ==
    LET first == Head(norm_tokens)
        last == norm_tokens[Len(norm_tokens)]
    IN  (IF /\ Len(first) >= 4
            /\ DictGet(ctx.analyzer.prefix_counts, first, 0) >= TypeFamilyMinCount
         THEN <<Cand("type_family", first, 50)>> ELSE <<>>)
        \o check_metadata_hub(ctx, item)
        \o (IF last \in ctx.config.rules.priority_suffixes
            THEN <<Cand("priority_suffix", last, 90)>> ELSE <<>>)
        \o (IF first \in ctx.analyzer.top_prefixes
            THEN <<Cand("strong_prefix", first, 80)>> ELSE <<>>)
        \o (IF last \in ctx.analyzer.strong_suffixes
            THEN <<Cand("strong_suffix", last, 70)>> ELSE <<>>)
        \o KeywordCands(ctx, norm_tokens, ctx.config.rules.keyword_clusters)

\* rules 3 to 8 for an item with tokens
RuleCands(ctx, item, norm_tokens) ==
    LET first == Head(norm_tokens)
        last == norm_tokens[Len(norm_tokens)]
    IN  check_metadata_hub(ctx, item)
        \o (IF last \in ctx.config.rules.priority_suffixes
            THEN <<Cand("priority_suffix", last, 90)>> ELSE <<>>)
        \o (IF first \in ctx.analyzer.top_prefixes
            THEN <<Cand("strong_prefix", first, 80)>> ELSE <<>>)
        \o (IF last \in ctx.analyzer.strong_suffixes
            THEN <<Cand("strong_suffix", last, 70)>> ELSE <<>>)
        \o KeywordCands(ctx, norm_tokens, ctx.config.rules.keyword_clusters)
        \o (IF /\ Len(first) >= 4
               /\ DictGet(ctx.analyzer.prefix_counts, first, 0) >= TypeFamilyMinCount
            THEN <<Cand("type_family", first, 50)>> ELSE <<>>)

\* _apply_rules: the candidates in precedence order
apply_rules(ctx, item) ==
    IF tokenize(item.name) = <<>> THEN <<>>
    ELSE RuleCands(ctx, item, NormTokens(ctx.config, ctx.seed, item.name))

CacheKey == <<"c","a","c","h","e">>
OverrideKey == <<"o","v","e","r","r","i","d","e">>
MiscKey == <<"M","i","s","c">>

\* a resolver that does not ask the cache: what resolve() would do without
\* its first step
ResolveBranchWithoutCache(gm, ctx, item) ==
    IF item.uid \in DOMAIN ctx.config.path_overrides THEN "override_uid"
    ELSE IF item.full_name \in DOMAIN ctx.config.path_overrides THEN "override_name"
    ELSE "rules"

\* a resolver that asks the overrides by full name before those by uid
ResolveBranchNameFirst(gm, ctx, item) ==
    IF ~ctx.config.force_rebuild /\ ~Falsy(lookup_path(gm, item.uid)) THEN "cache"
    ELSE IF item.full_name \in DOMAIN ctx.config.path_overrides THEN "override_name"
    ELSE IF item.uid \in DOMAIN ctx.config.path_overrides THEN "override_uid"
    ELSE "rules"

\* the branch resolve() takes for an item
ResolveBranch(gm, ctx, item) ==
    IF ~ctx.config.force_rebuild /\ ~Falsy(lookup_path(gm, item.uid)) THEN "cache"
    ELSE IF item.uid \in DOMAIN ctx.config.path_overrides THEN "override_uid"
    ELSE IF item.full_name \in DOMAIN ctx.config.path_overrides THEN "override_name"
    ELSE "rules"

\* what resolve() hands to _finalize
Proposal(path, rule, score, cluster_key, runners_up) ==
    [path |-> path, rule |-> rule, score |-> score, cluster_key |-> cluster_key,
     runners_up |-> runners_up]

\* the end of resolve(): the first candidate wins, Misc when there is none
RuleProposal(ctx, item, candidates) ==
    LET winning == IF candidates = <<>> THEN Cand("misc", MiscKey, 10)
                   ELSE Head(candidates)
        runners_up == IF candidates = <<>> THEN <<>> ELSE Tail(candidates)
    IN  Proposal(<<GlobalSeg, winning.key,
                   normalize(ctx.config.acronyms, ctx.seed, item.name)>>,
                 winning.rule, winning.score, winning.key, runners_up)

\* the path and rule resolve() settles on before the collision step
Propose(gm, ctx, item, branch) ==
    CASE branch = "cache" ->
           Proposal(lookup_path(gm, item.uid), "cache", 100, CacheKey, <<>>)
      [] branch = "override_uid" ->
           Proposal(ctx.config.path_overrides[item.uid],
                    "override_uid", 100, OverrideKey, <<>>)
      [] branch = "override_name" ->
           Proposal(ctx.config.path_overrides[item.full_name],
                    "override_name", 100, OverrideKey, <<>>)
      [] OTHER ->
           RuleProposal(ctx, item, apply_rules(ctx, item))

FinalizeProposal(rs, gm, uid, pr) ==
    finalize(rs, gm, uid, pr.path, pr.rule, pr.score, pr.cluster_key, pr.runners_up)

\* resolve() once the cache has been asked: gm1 is the map after the lookup
ResolveVia(rs, gm1, ctx, item, branch) ==
    FinalizeProposal(rs, gm1, item.uid, Propose(gm1, ctx, item, branch))

\* resolve(item): [rs, gm, res]
resolve(rs, gm, ctx, item) ==
    ResolveVia(rs, IF ~ctx.config.force_rebuild THEN lookup_map(gm, item.uid) ELSE gm,
               ctx, item, ResolveBranch(gm, ctx, item))

(***************************************************************************)
(* Persistent map on disk (src/src/global_namespace_map.py)                *)
(* A file is [state |-> "absent"], [state |-> "doc", meta, mapping] or     *)
(* [state |-> "partial"]: text that does not parse as a JSON document.     *)
(***************************************************************************)
CURRENT_SCHEMA_VERSION == 1

AbsentFile == [state |-> "absent"]
PartialFile == [state |-> "partial"]
DocFile(meta, mapping) == [state |-> "doc", meta |-> meta, mapping |-> mapping]
\* a file read_text() cannot read (no permission, not UTF-8)
UnreadableFile == [state |-> "unreadable"]
\* a JSON document whose "mapping" is not an object: .items() raises after
\* self.meta was assigned, and the except clause swallows the error
MalformedFile(meta) == [state |-> "malformed", meta |-> meta]

\* __init__
NewGlobalNamespaceMap(current_config_hash) ==
    [mapping |-> EmptyDict,
     meta |-> [schema_version |-> CURRENT_SCHEMA_VERSION,
               config_hash |-> current_config_hash,
               run_id |-> 0],
     accessed_uids |-> {},
     current_config_hash |-> current_config_hash]

\* a load that takes a document of any schema version, opt-in or not
load_any_schema(gm, file, accept_legacy) ==
    IF file.state \notin {"doc", "malformed"} THEN gm
    ELSE LET meta == IF "run_id" \in DOMAIN file.meta THEN file.meta
                     ELSE [k \in (DOMAIN file.meta) \cup {"run_id"} |->
                              IF k = "run_id" THEN 0 ELSE file.meta[k]]
             entry(val) == IF "last_seen" \in DOMAIN val THEN val
                           ELSE [path |-> val.path, last_seen |-> meta.run_id]
         IN  IF file.state = "malformed" THEN [gm EXCEPT !.meta = meta]
             ELSE [gm EXCEPT
                     !.meta = meta,
                     !.mapping = [u \in DOMAIN file.mapping |-> entry(file.mapping[u])] @@ @]

\* a load that treats every entry as a legacy one and stamps it with the
\* document's run id
load_restamping(gm, file, accept_legacy) ==
    IF file.state \notin {"doc", "malformed"} THEN gm
    ELSE LET schema_ver == IF "schema_version" \in DOMAIN file.meta
                           THEN file.meta.schema_version ELSE 0
             meta == IF "run_id" \in DOMAIN file.meta THEN file.meta
                     ELSE [k \in (DOMAIN file.meta) \cup {"run_id"} |->
                              IF k = "run_id" THEN 0 ELSE file.meta[k]]
         IN  IF schema_ver # CURRENT_SCHEMA_VERSION /\ ~accept_legacy THEN gm
             ELSE IF file.state = "malformed" THEN [gm EXCEPT !.meta = meta]
             ELSE [gm EXCEPT
                     !.meta = meta,
                     !.mapping = [u \in DOMAIN file.mapping |->
                                     [path |-> file.mapping[u].path,
                                      last_seen |-> meta.run_id]] @@ @]

\* load(accept_legacy): a document entry is [path, last_seen] or, in a legacy
\* document, the bare path [path]; the keys of meta may be missing
load(gm, file, accept_legacy) ==
    IF file.state \notin {"doc", "malformed"} THEN gm
    ELSE LET schema_ver == IF "schema_version" \in DOMAIN file.meta
                           THEN file.meta.schema_version ELSE 0
             meta == IF "run_id" \in DOMAIN file.meta THEN file.meta
                     ELSE [k \in (DOMAIN file.meta) \cup {"run_id"} |->
                              IF k = "run_id" THEN 0 ELSE file.meta[k]]
             entry(val) == IF "last_seen" \in DOMAIN val THEN val
                           ELSE [path |-> val.path, last_seen |-> meta.run_id]
         IN  IF schema_ver # CURRENT_SCHEMA_VERSION /\ ~accept_legacy THEN gm
             ELSE IF file.state = "malformed" THEN [gm EXCEPT !.meta = meta]
             ELSE [gm EXCEPT
                     !.meta = meta,
                     !.mapping = [u \in DOMAIN file.mapping |-> entry(file.mapping[u])] @@ @]

\* a save that stamps every entry, accessed or not, with the new run id
save_state_stamping_all(gm, prune_stale_threshold) ==
    LET current_run_id == gm.meta.run_id + 1
    IN  [gm EXCEPT
           !.meta = [k \in (DOMAIN gm.meta) \cup {"run_id", "config_hash", "schema_version"} |->
                        CASE k = "run_id" -> current_run_id
                          [] k = "config_hash" -> gm.current_config_hash
                          [] k = "schema_version" -> CURRENT_SCHEMA_VERSION
                          [] OTHER -> gm.meta[k]],
           !.mapping = [u \in DOMAIN gm.mapping |->
                           [gm.mapping[u] EXCEPT !.last_seen = current_run_id]]]

\* a save that prunes by the last_seen values it loaded, before the entries
\* observed in this run are stamped
save_state_pruning_first(gm, prune_stale_threshold) ==
    LET current_run_id == gm.meta.run_id + 1
        to_remove == IF prune_stale_threshold > 0
                     THEN {u \in DOMAIN gm.mapping :
                             (current_run_id - gm.mapping[u].last_seen) > prune_stale_threshold}
                     ELSE {}
    IN  [gm EXCEPT
           !.meta = [k \in (DOMAIN gm.meta) \cup {"run_id", "config_hash", "schema_version"} |->
                        CASE k = "run_id" -> current_run_id
                          [] k = "config_hash" -> gm.current_config_hash
                          [] k = "schema_version" -> CURRENT_SCHEMA_VERSION
                          [] OTHER -> gm.meta[k]],
           !.mapping = [u \in (DOMAIN gm.mapping) \ to_remove |->
                           IF u \in gm.accessed_uids
                           THEN [gm.mapping[u] EXCEPT !.last_seen = current_run_id]
                           ELSE gm.mapping[u]]]

\* the in-memory part of save(prune_stale_threshold): run id, last_seen, prune
save_state(gm, prune_stale_threshold) ==
    LET current_run_id == gm.meta.run_id + 1
        meta == [k \in (DOMAIN gm.meta) \cup {"run_id", "config_hash", "schema_version"} |->
                    CASE k = "run_id" -> current_run_id
                      [] k = "config_hash" -> gm.current_config_hash
                      [] k = "schema_version" -> CURRENT_SCHEMA_VERSION
                      [] OTHER -> gm.meta[k]]
        seen == [u \in DOMAIN gm.mapping |->
                    IF u \in gm.accessed_uids
                    THEN [gm.mapping[u] EXCEPT !.last_seen = current_run_id]
                    ELSE gm.mapping[u]]
        to_remove == IF prune_stale_threshold > 0
                     THEN {u \in DOMAIN seen :
                             (current_run_id - seen[u].last_seen) > prune_stale_threshold}
                     ELSE {}
    IN  [gm EXCEPT !.meta = meta,
                   !.mapping = [u \in (DOMAIN seen) \ to_remove |-> seen[u]]]

\* the document save() writes
SavedDoc(gm) == DocFile(gm.meta, gm.mapping)

(***************************************************************************)
(* The conversion pipeline (src/src/run_conversion.py)                     *)
(***************************************************************************)
VARIABLES
    pc,                \* where the run (or the operation under study) stands
    args,              \* command-line arguments of the run
    config,            \* the loaded configuration
    uid_to_item,       \* the metadata index built from the input files
    hashseed,          \* the salt of Python's hash() in this process
    map_file,          \* global_namespace_map.json on disk
    map_file_at_start, \* the content of the map file when the run started
    global_map,        \* the GlobalNamespaceMap object
    analyzer,          \* frequency counts and the resolver's helper caches
    resolver,          \* assigned_paths, path_registry and folders
    global_resolved,   \* uid -> ResolutionResult
    order,             \* the items the resolve loop has visited, in order
    out_files,         \* files under the api root of the output directory
    written            \* number of type pages written

\* NormalizationPass (src/src/normalization_pass.py): the arguments of run(),
\* the fields of the object and the locals run() carries from step to step
VARIABLES
    initial_assignments, \* uid -> [rule_id, cluster_key]
    original_signals,    \* uid -> sequence of [rule_id, cluster_key, score]
    roots,               \* self.roots: canonical root name -> NormalizationRoot
    union_find,          \* self.union_find: root name -> parent name
    root_sizes,          \* self.root_sizes: root name -> pre-merge size
    kept_roots,          \* the kept set of Step 2
    final_assignments    \* uid -> cluster key, as run() rebinds it

\* StubGenerator (src/src/stub_generator.py)
VARIABLES
    stub_call            \* the last generate_stub call: its arguments and what it returned

\* ClusterReport (src/src/cluster_report.py), and the runs made before this one
\* over the same input
VARIABLES
    report,              \* cluster_report.json
    runs                 \* what each earlier run produced: its order, paths and report

\* Tokenizer (src/src/tokenizer.py)
VARIABLES
    tokenize_call        \* the last tokenize call: its argument and what it returned

NormVars == <<initial_assignments, original_signals, roots, union_find, root_sizes,
              kept_roots, final_assignments>>

vars == <<pc, args, config, uid_to_item, hashseed, map_file, map_file_at_start,
          global_map, analyzer, resolver, global_resolved, order, out_files, written,
          NormVars, stub_call, report, runs, tokenize_call>>

RunVars == <<report, runs>>

\* generate_report has not been called
NoReport == [written |-> FALSE]

\* tokenize has not been called
NoTokenizeCall == [text |-> <<>>, returned |-> <<>>, called |-> FALSE]

\* generate_stub has not been called
NoStubCall == [returned |-> "not called"]

\* no NormalizationPass has been constructed
NoNormalization ==
    /\ initial_assignments = <<>>
    /\ original_signals = <<>>
    /\ roots = <<>>
    /\ union_find = <<>>
    /\ root_sizes = <<>>
    /\ kept_roots = {}
    /\ final_assignments = <<>>

\* number of items in the input metadata
NumItems == 3

UidSeq == << <<"u","1">>, <<"u","2">>, <<"u","3">>, <<"u","4">>, <<"u","5">> >>
Uids == {UidSeq[i] : i \in 1..NumItems}

StoryEvent == <<"S","t","o","r","y","E","v","e","n","t">>
StoryBeat == <<"S","t","o","r","y","B","e","a","t">>
HeroUI == <<"H","e","r","o","U","I">>
Hero == <<"H","e","r","o">>
Game == <<"G","a","m","e">>
GameHero == <<"G","a","m","e",".","H","e","r","o">>

GlobalClass(uid, name) == ItemInfo(uid, "class", name, name, None, <<>>, <<>>)

\* the items a uid may stand for in the input
ItemChoices(i) ==
    CASE i = 1 -> {GlobalClass(UidSeq[i], StoryEvent)}
      [] i = 2 -> {GlobalClass(UidSeq[i], StoryBeat), GlobalClass(UidSeq[i], StoryEvent)}
      [] i = 3 -> {GlobalClass(UidSeq[i], HeroUI), GlobalClass(UidSeq[i], Hero),
                   ItemInfo(UidSeq[i], "class", Hero, GameHero, Game, <<>>, <<>>)}
      [] OTHER -> {GlobalClass(UidSeq[i], StoryBeat)}

Corpora == {f \in [Uids -> UNION {ItemChoices(i) : i \in 1..NumItems}] :
               \A i \in 1..NumItems : f[UidSeq[i]] \in ItemChoices(i)}

\* paths are sequences of segments; the last one is the file stem (.md implied)
P_Story == <<GlobalSeg, <<"S","t","o","r","y">> >>
P_StoryPage == <<GlobalSeg, <<"S","t","o","r","y","_","P","a","g","e">> >>
P_StoryPageHero == <<GlobalSeg, <<"S","t","o","r","y","_","P","a","g","e">>, Hero>>
P_StoryHero == <<GlobalSeg, <<"S","t","o","r","y">>, Hero>>
P_Story532a == <<GlobalSeg, <<"S","t","o","r","y","_","5","3","2","a">> >>
P_storyLower == <<GlobalSeg, <<"s","t","o","r","y">> >>

\* the paths a previous run may have left in the map for a uid
CacheChoices(i) ==
    CASE i = 1 -> {None, P_Story, P_StoryPage, P_StoryPageHero}
      [] i = 2 -> {None, P_Story, P_Story532a}
      [] i = 3 -> {None, P_Story, P_StoryHero, P_storyLower}
      [] OTHER -> {None}

CachedMappings ==
    {[u \in {UidSeq[i] : i \in {j \in 1..NumItems : c[j] # None}} |->
         [path |-> c[CHOOSE i \in 1..NumItems : UidSeq[i] = u], last_seen |-> 1]] :
       c \in {d \in [1..NumItems -> UNION {CacheChoices(i) : i \in 1..NumItems}] :
                 \A i \in 1..NumItems : d[i] \in CacheChoices(i)}}

OverrideChoices ==
    {EmptyDict, (UidSeq[3] :> P_Story), (Hero :> P_StoryPage)}

\* load_config: the defaults, with the user's values merged in
LoadedConfig(force_rebuild, path_overrides, min_cluster_size) ==
    [force_rebuild |-> force_rebuild,
     path_overrides |-> path_overrides,
     hub_types |-> EmptyDict,
     acronyms |-> {<<"U","I">>},
     thresholds |-> [min_cluster_size |-> min_cluster_size, min_family_size |-> 3,
                     top_k |-> 20,
                     max_top_level_folders |-> 1, max_folder_size |-> 250,
                     stale_prune_after_runs |-> 5],
     rules |-> [priority_suffixes |-> {<<"U","I">>},
                keyword_clusters |-> <<>>,
                pinned_allow_singleton |-> FALSE,
                pinned_roots |-> {},
                stop_tokens |-> {<<"M","a","n","a","g","e","r">>, <<"B","a","s","e">>},
                metadata_denylist |-> {<<"O","b","j","e","c","t">>}]]

\* sha256 of the canonical JSON text of the configuration
compute_config_hash(cfg) == [sha256_of |-> cfg]

RECURSIVE SplitDots(_, _)
\* s.split(".")
SplitDots(s, cur) ==
    IF s = <<>> THEN <<cur>>
    ELSE IF Head(s) = "." THEN <<cur>> \o SplitDots(Tail(s), <<>>)
    ELSE SplitDots(Tail(s), Append(cur, Head(s)))

\* page_path_for_fullname, relative to the api root; the names used here
\* hold only characters that dot_safe keeps
page_path_for_fullname(full_name, use_global_dir) ==
    (IF use_global_dir THEN <<GlobalSeg>> ELSE <<>>) \o SplitDots(full_name, <<>>)

\* Paths as pathlib sees them: a path string is the sequence of its parts
\* between slashes, and an absolute path string starts with an empty part.
DotDot == <<".", ".">>
Dot == <<".">>

\* StubGenerator.base_dir, resolved: the api root under the output directory
BaseDir == << <<"o","u","t">>, <<"a","p","i">> >>

IsAbsolute(path_str) == path_str # <<>> /\ path_str[1] = <<>>

\* base / path_str: an absolute right operand replaces the left one
JoinPath(base, path_str) ==
    IF IsAbsolute(path_str) THEN Tail(path_str) ELSE base \o path_str

RECURSIVE ResolveParts(_, _)
\* Path.resolve() where no part is a symbolic link: "." and empty parts go,
\* ".." removes the part before it, and nothing is above the root
ResolveParts(parts, acc) ==
    IF parts = <<>> THEN acc
    ELSE ResolveParts(Tail(parts),
            CASE Head(parts) \in {<<>>, Dot} -> acc
              [] Head(parts) = DotDot ->
                    IF acc = <<>> THEN acc ELSE SubSeq(acc, 1, Len(acc) - 1)
              [] OTHER -> Append(acc, Head(parts)))

resolve_path(parts) == ResolveParts(parts, <<>>)

\* str(path) of a resolved absolute path
PathStr(parts) ==
    IF parts = <<>> THEN <<"/">>
    ELSE Flatten([i \in DOMAIN parts |-> <<"/">> \o parts[i]])

\* str.startswith
StartsWith(s, prefix) == Len(s) >= Len(prefix) /\ SubSeq(s, 1, Len(prefix)) = prefix

\* target.relative_to(base) returns; otherwise it raises ValueError
IsRelativeTo(target, base) ==
    Len(target) >= Len(base) /\ SubSeq(target, 1, Len(base)) = base

RECURSIVE CommonParts(_, _)
\* the number of leading parts two resolved paths share
CommonParts(a, b) ==
    IF a = <<>> \/ b = <<>> \/ Head(a) # Head(b) THEN 0
    ELSE 1 + CommonParts(Tail(a), Tail(b))

\* a location on disk as out_files names it: relative to the api root, with
\* leading ".." parts when it lies outside the api root
FileKey(target) ==
    [i \in 1..(Len(BaseDir) - CommonParts(target, BaseDir)) |-> DotDot]
        \o Drop(target, CommonParts(target, BaseDir) + 1)

\* the location lies in the api root
InsideBase(key) == key = <<>> \/ Head(key) # DotDot

\* _create_stub_content: the document names uid, old path and new path
StubContent(old_path_str, new_path_str, uid) ==
    [kind |-> "stub", uid |-> uid, old_path |-> old_path_str, new_path |-> new_path_str]

\* a generate_stub that writes over whatever the old path holds
generate_stub_overwriting(files, old_path_str, new_path_str, uid) ==
    IF /\ ~StartsWith(PathStr(resolve_path(JoinPath(BaseDir, old_path_str))), PathStr(BaseDir))
       /\ ~IsRelativeTo(resolve_path(JoinPath(BaseDir, old_path_str)), BaseDir)
    THEN [files |-> files, returned |-> "None"]
    ELSE [files |-> PutKey(files, FileKey(resolve_path(JoinPath(BaseDir, old_path_str))),
                           StubContent(old_path_str, new_path_str, uid)),
          returned |-> "content"]

\* a stub written at the location old_path_str names under the base directory
StubAt(files, target, old_path_str, new_path_str, uid) ==
    IF FileKey(target) \in DOMAIN files
    THEN [files |-> files, returned |-> "None"]
    ELSE [files |-> PutKey(files, FileKey(target),
                           StubContent(old_path_str, new_path_str, uid)),
          returned |-> "content"]

\* generate_stub: the files afterwards and whether content or None is
\* returned. The check passes as soon as the text of the resolved target
\* starts with the text of the resolved base; only otherwise relative_to is
\* asked, and its ValueError makes the call return None.
generate_stub(files, old_path_str, new_path_str, uid) ==
    IF /\ ~StartsWith(PathStr(resolve_path(JoinPath(BaseDir, old_path_str))), PathStr(BaseDir))
       /\ ~IsRelativeTo(resolve_path(JoinPath(BaseDir, old_path_str)), BaseDir)
    THEN [files |-> files, returned |-> "None"]
    ELSE StubAt(files, resolve_path(JoinPath(BaseDir, old_path_str)),
                old_path_str, new_path_str, uid)

IsGlobalType(item) == is_type_kind(item.kind) /\ should_use_global_dir(item.namespace)

\* the analyzer's counters with the helper caches GlobalPathResolver.__init__
\* takes from them
WithCaches(an, stop_tokens, thresholds) ==
    [prefix_counts |-> an.prefix_counts,
     suffix_counts |-> an.suffix_counts,
     top_prefixes |-> get_top_prefixes(an.prefix_counts, stop_tokens,
                                       thresholds.top_k, thresholds.min_cluster_size),
     strong_suffixes |-> get_strong_suffixes(an.suffix_counts, stop_tokens,
                                             thresholds.min_cluster_size)]

Analyze(items, cfg, seed) ==
    WithCaches(analyze(items, cfg, seed), AnalyzerStopTokens(cfg, seed), cfg.thresholds)

NoAnalysis ==
    [prefix_counts |-> EmptyDict, suffix_counts |-> EmptyDict,
     top_prefixes |-> {}, strong_suffixes |-> {}]

NewResolver == [assigned_paths |-> EmptyDict, path_registry |-> EmptyDict, folders |-> {}]

Ctx == [uid_to_item |-> uid_to_item, analyzer |-> analyzer,
        config |-> config, seed |-> hashseed]

\* the pages a previous run left for the paths of a map document
PagesOf(file) ==
    IF file.state # "doc" THEN EmptyDict
    ELSE [q \in {file.mapping[u].path : u \in DOMAIN file.mapping} |-> [kind |-> "page"]]

StartFiles ==
    {IF m = EmptyDict THEN AbsentFile
     ELSE DocFile([schema_version |-> CURRENT_SCHEMA_VERSION,
                   config_hash |-> compute_config_hash(LoadedConfig(FALSE, EmptyDict, 3)),
                   run_id |-> 1], m) : m \in CachedMappings}

Init ==
    /\ pc = "init_infra"
    /\ args \in [dry_run : BOOLEAN, force_rebuild : BOOLEAN,
                 accept_legacy_cache : {FALSE}, prune_stale : {FALSE}]
    /\ \E ov \in OverrideChoices, mcs \in {2, 3} : config = LoadedConfig(FALSE, ov, mcs)
    /\ uid_to_item \in Corpora
    /\ hashseed = 0
    /\ map_file \in StartFiles
    /\ map_file_at_start = map_file
    /\ global_map = NewGlobalNamespaceMap(compute_config_hash(config))
    /\ analyzer = NoAnalysis
    /\ resolver = NewResolver
    /\ global_resolved = EmptyDict
    /\ order = <<>>
    /\ out_files \in {EmptyDict, PagesOf(map_file)}
    /\ written = 0
    /\ stub_call = NoStubCall
    /\ report = NoReport
    /\ runs = <<>>
    /\ tokenize_call = NoTokenizeCall
    /\ NoNormalization

\* _init_infra
InitInfra ==
    /\ pc = "init_infra"
    /\ config' = [config EXCEPT !.force_rebuild = args.force_rebuild]
    /\ global_map' = load(NewGlobalNamespaceMap(compute_config_hash(config')),
                          map_file, args.accept_legacy_cache)
    /\ pc' = "analyze"
    /\ UNCHANGED <<NormVars, stub_call, RunVars, tokenize_call, args, uid_to_item, hashseed, map_file, map_file_at_start, analyzer,
                   resolver, global_resolved, order, out_files, written>>

\* _analyze_metadata, and the construction of the resolver
AnalyzeMetadata ==
    /\ pc = "analyze"
    /\ analyzer' = Analyze(uid_to_item, config, hashseed)
    /\ resolver' = NewResolver
    /\ pc' = "resolve"
    /\ UNCHANGED <<NormVars, stub_call, RunVars, tokenize_call, args, config, uid_to_item, hashseed, map_file, map_file_at_start,
                   global_map, global_resolved, order, out_files, written>>

Unvisited == (DOMAIN uid_to_item) \ Range(order)

\* the metadata index lists the items in the order of the sorted input files:
\* a later run over the same input visits them in the order of the first
FollowsEarlierRun(uid) ==
    IF runs = <<>> THEN TRUE ELSE uid = runs[1].order[Len(order) + 1]

\* a loop body that never calls the stub generator
Record_without_stub(uid, old_path, r) ==
    /\ resolver' = r.rs
    /\ global_map' = r.gm
    /\ global_resolved' = PutKey(global_resolved, uid, r.res)
    /\ out_files' = out_files

\* the body of the loop of _resolve_global_paths after resolver.resolve
\* returned r
Record(uid, old_path, r) ==
    /\ resolver' = r.rs
    /\ global_map' = r.gm
    /\ global_resolved' = PutKey(global_resolved, uid, r.res)
    /\ out_files' = IF ~args.dry_run /\ ~Falsy(old_path) /\ old_path # r.res.final_path
                    THEN generate_stub(out_files, old_path, r.res.final_path, uid).files
                    ELSE out_files

\* one turn of the loop of _resolve_global_paths for a global type
ResolveItem(uid) ==
    /\ pc = "resolve"
    /\ uid \in Unvisited
    /\ FollowsEarlierRun(uid)
    /\ IsGlobalType(uid_to_item[uid])
    /\ Record(uid, lookup_path(global_map, uid),
              resolve(resolver, lookup_map(global_map, uid), Ctx, uid_to_item[uid]))
    /\ order' = Append(order, uid)
    /\ UNCHANGED <<NormVars, stub_call, RunVars, tokenize_call, pc, args, config, uid_to_item, hashseed, map_file, map_file_at_start,
                   analyzer, written>>

\* the turn of the loop, by the way resolve() finds the path
ResolveCached(uid) ==
    /\ ResolveBranch(global_map, Ctx, uid_to_item[uid]) = "cache"
    /\ ResolveItem(uid)

ResolveOverrideUid(uid) ==
    /\ ResolveBranch(global_map, Ctx, uid_to_item[uid]) = "override_uid"
    /\ ResolveItem(uid)

ResolveOverrideName(uid) ==
    /\ ResolveBranch(global_map, Ctx, uid_to_item[uid]) = "override_name"
    /\ ResolveItem(uid)

ResolveByRules(uid) ==
    /\ ResolveBranch(global_map, Ctx, uid_to_item[uid]) = "rules"
    /\ ResolveItem(uid)

\* the loop passes over an item that is not a global type
SkipItem(uid) ==
    /\ pc = "resolve"
    /\ uid \in Unvisited
    /\ FollowsEarlierRun(uid)
    /\ ~IsGlobalType(uid_to_item[uid])
    /\ order' = Append(order, uid)
    /\ UNCHANGED <<NormVars, stub_call, RunVars, tokenize_call, pc, args, config, uid_to_item, hashseed, map_file, map_file_at_start,
                   global_map, analyzer, resolver, global_resolved, out_files, written>>

\* build_link_targets: the page of a type, relative to the api root
PagePath(uid) ==
    LET item == uid_to_item[uid]
    IN  IF IsGlobalType(item) /\ uid \in DOMAIN global_resolved
        THEN global_resolved[uid].final_path
        ELSE page_path_for_fullname(item.full_name, IsGlobalType(item))

\* the type items in the order of the metadata index
TypeItems == SelectSeq(order, LAMBDA u : is_type_kind(uid_to_item[u].kind))

LoopDone == pc = "resolve" /\ Unvisited = {}

\* the values time.time() may return
Times == 1..2

\* self.results: the results in the order the loop added them
ReportResults(results, visited) ==
    [i \in 1..Len(SelectSeq(visited, LAMBDA u : u \in DOMAIN results)) |->
        results[SelectSeq(visited, LAMBDA u : u \in DOMAIN results)[i]]]

\* generate_report: the document written to cluster_report.json; its stats
\* are computed from the results alone
generate_report(config_hash, results, start_time, now) ==
    [written |-> TRUE,
     meta |-> [timestamp |-> now, duration |-> now - start_time,
               config_hash |-> config_hash,
               schema_version |-> CURRENT_SCHEMA_VERSION,
               total_items |-> Len(results)],
     results |-> results]

\* the dry run writes the report and returns before anything is saved or
\* rendered
FinishDryRun ==
    /\ LoopDone
    /\ args.dry_run
    /\ \E start_time \in Times, now \in Times :
           /\ start_time <= now
           /\ report' = generate_report(compute_config_hash(config),
                                       ReportResults(global_resolved, order),
                                       start_time, now)
    /\ pc' = "done"
    /\ UNCHANGED <<NormVars, stub_call, runs, tokenize_call, args, config, uid_to_item, hashseed, map_file, map_file_at_start,
                   global_map, analyzer, resolver, global_resolved, order, out_files,
                   written>>

\* global_map.save(prune_stale_threshold=threshold) in run_conversion
SaveMap ==
    /\ LoopDone
    /\ ~args.dry_run
    /\ LET threshold == IF args.prune_stale
                        THEN config.thresholds.stale_prune_after_runs ELSE 0
       IN  global_map' = save_state(global_map, threshold)
    /\ map_file' = SavedDoc(global_map')
    /\ pc' = "render"
    /\ UNCHANGED <<NormVars, stub_call, RunVars, tokenize_call, args, config, uid_to_item, hashseed, map_file_at_start, analyzer,
                   resolver, global_resolved, order, out_files, written>>

\* one turn of the loop of write_type_pages
WritePage ==
    /\ pc = "render"
    /\ written < Len(TypeItems)
    /\ LET uid == TypeItems[written + 1]
       IN  out_files' = PutKey(out_files, PagePath(uid), [kind |-> "page", uid |-> uid])
    /\ written' = written + 1
    /\ UNCHANGED <<NormVars, stub_call, RunVars, tokenize_call, pc, args, config, uid_to_item, hashseed, map_file, map_file_at_start,
                   global_map, analyzer, resolver, global_resolved, order>>

\* write_text raises: the exception ends the run
WritePageFails ==
    /\ pc = "render"
    /\ written < Len(TypeItems)
    /\ pc' = "write_failed"
    /\ UNCHANGED <<NormVars, stub_call, RunVars, tokenize_call, args, config, uid_to_item, hashseed, map_file, map_file_at_start,
                   global_map, analyzer, resolver, global_resolved, order, out_files,
                   written>>

Finish ==
    /\ pc = "render"
    /\ written = Len(TypeItems)
    /\ pc' = "done"
    /\ UNCHANGED <<NormVars, stub_call, RunVars, tokenize_call, args, config, uid_to_item, hashseed, map_file, map_file_at_start,
                   global_map, analyzer, resolver, global_resolved, order, out_files,
                   written>>

Next ==
    \/ InitInfra
    \/ AnalyzeMetadata
    \/ \E uid \in Uids : ResolveCached(uid)
    \/ \E uid \in Uids : ResolveOverrideUid(uid)
    \/ \E uid \in Uids : ResolveOverrideName(uid)
    \/ \E uid \in Uids : ResolveByRules(uid)
    \/ \E uid \in Uids : SkipItem(uid)
    \/ FinishDryRun
    \/ SaveMap
    \/ WritePage
    \/ WritePageFails
    \/ Finish

Spec == Init /\ [][Next]_vars

(***************************************************************************)
(* Properties of the resolver within a pipeline run                        *)
(***************************************************************************)
AssignedUids == DOMAIN resolver.assigned_paths

AssignedPath(uid) == resolver.assigned_paths[uid]

\* the folders of a path, compared case-insensitively
CanonicalParents(path) == {to_canonical_path(q) : q \in Range(Parents(path))}

\* C1: no two identifiers have assigned paths that are equal after
\* lower-casing and slash normalisation.
C1_UniqueAssignedPaths ==
    \A u, v \in AssignedUids :
        u # v => to_canonical_path(AssignedPath(u)) # to_canonical_path(AssignedPath(v))

\* C2: no identifier's assigned path without its extension equals
\* (case-insensitively) a parent directory of any identifier's assigned path.
C2_NoFileShadowsFolder ==
    \A u, v \in AssignedUids :
        to_canonical_path(AssignedPath(u)) \notin CanonicalParents(AssignedPath(v))

\* a path is free of conflict with the assignments rs holds: no equal file,
\* no folder with the name of the file, no file with the name of a folder of it
NoConflict(rs, path) ==
    \A v \in DOMAIN rs.assigned_paths :
        /\ to_canonical_path(rs.assigned_paths[v]) # to_canonical_path(path)
        /\ to_canonical_path(path) \notin CanonicalParents(rs.assigned_paths[v])
        /\ to_canonical_path(rs.assigned_paths[v]) \notin CanonicalParents(path)

\* the step in which the loop of _resolve_global_paths resolves uid
Resolves(uid) ==
    /\ pc = "resolve"
    /\ uid \notin DOMAIN global_resolved
    /\ uid \in DOMAIN global_resolved'

\* C3: with force_rebuild off, an item whose identifier has a path in the
\* persistent map that conflicts with no assignment made in the run is
\* assigned exactly that cached path, with winning rule "cache".
C3_CacheStability ==
    [][\A uid \in Uids :
          ( /\ Resolves(uid)
            /\ ~config.force_rebuild
            /\ uid \in DOMAIN global_map.mapping
            /\ NoConflict(resolver, global_map.mapping[uid].path) )
          => /\ global_resolved'[uid].final_path = global_map.mapping[uid].path
             /\ global_resolved'[uid].winning_rule = "cache"
             /\ resolver'.assigned_paths[uid] = global_map.mapping[uid].path]_vars

\* a cached item resolved after another item, to the path the map held
C3_Witness ==
    /\ Len(order) >= 2
    /\ ~config.force_rebuild
    /\ map_file_at_start.state = "doc"
    /\ LET uid == order[Len(order)]
       IN  /\ uid \in DOMAIN map_file_at_start.mapping
           /\ uid \in DOMAIN global_resolved
           /\ global_resolved[uid].winning_rule = "cache"
           /\ global_resolved[uid].final_path = map_file_at_start.mapping[uid].path
           /\ AssignedUids # {uid}

\* the top-level folders under Global/ of the final paths of the run
TopLevelFolders ==
    {global_resolved[u].final_path[2] :
        u \in {v \in DOMAIN global_resolved :
                  /\ Len(global_resolved[v].final_path) >= 3
                  /\ global_resolved[v].final_path[1] = GlobalSeg}}

\* C4: at the end of a pipeline run the number of distinct top-level
\* subfolders of Global/ other than Misc and the pinned roots is at most
\* thresholds.max_top_level_folders.
C4_TopLevelFolderCap ==
    pc = "done" =>
        Cardinality(TopLevelFolders \ ({MiscKey} \cup config.rules.pinned_roots))
            <= config.thresholds.max_top_level_folders

\* the turns of the file-vs-file loop when path enters step 2 for uid
RetriesFrom(rs, uid, d1) ==
    SuffixRetries(RenameBlockingFiles(rs, Parents(d1)).path_registry, uid, d1)

\* the file-vs-file retries of the resolve call that is about to run for uid
FileVsFileRetries(uid) ==
    RetriesFrom(resolver, uid,
                AvoidFolder(resolver,
                            Propose(global_map, Ctx, uid_to_item[uid],
                                    ResolveBranch(global_map, Ctx, uid_to_item[uid])).path))

\* C7: a resolve call that assigns a path has appended _<h> at most a small
\* bounded number of times (here: once); a call that would need more aborts
\* the run and assigns nothing.
C7_BoundedRetriesThenAbort ==
    [][\A uid \in Uids : Resolves(uid) => FileVsFileRetries(uid) <= 1]_vars

\* C8: if writing an output page fails, the map file still holds the document
\* it held when the run started.
C8_MapUntouchedOnWriteFailure ==
    pc = "write_failed" => map_file = map_file_at_start

(***************************************************************************)
(* The life of the persistent map: load, lookups and updates, save          *)
(* (src/src/global_namespace_map.py; src/src/global_map.py is the same      *)
(* class).  write_text opens the file for writing, which empties it, and    *)
(* then writes the text: SaveTruncate and SaveWrite.                        *)
(***************************************************************************)
\* the largest run counter a map file is taken to
MaxRunId == 4

LegacyMeta == [schema_version |-> 0]
LegacyMetaWithRun == [schema_version |-> 0, run_id |-> 3]
CurrentMeta ==
    [schema_version |-> CURRENT_SCHEMA_VERSION,
     config_hash |-> compute_config_hash(LoadedConfig(FALSE, EmptyDict, 3)),
     run_id |-> 3]

\* what a document may hold for a uid: nothing, a bare path, or an entry
NoEntry == [absent |-> TRUE]

EntryChoices == {NoEntry, [path |-> P_Story], [path |-> P_Story, last_seen |-> 1],
                 [path |-> P_Story, last_seen |-> 3]}

DocMappings ==
    {[u \in {v \in Uids : c[v] # NoEntry} |-> c[u]] : c \in [Uids -> EntryChoices]}

MapFiles ==
    {AbsentFile, PartialFile, UnreadableFile, MalformedFile(CurrentMeta),
     MalformedFile(LegacyMetaWithRun)}
    \cup {DocFile(meta, m) : meta \in {LegacyMeta, LegacyMetaWithRun, CurrentMeta},
                             m \in DocMappings}

InitMap ==
    /\ pc = "map_new"
    /\ args \in [dry_run : {FALSE}, force_rebuild : {FALSE},
                 accept_legacy_cache : BOOLEAN, prune_stale : BOOLEAN]
    /\ config = [LoadedConfig(FALSE, EmptyDict, 3) EXCEPT
                    !.thresholds.stale_prune_after_runs = 1]
    /\ uid_to_item = EmptyDict
    /\ hashseed = 0
    /\ map_file \in MapFiles
    /\ map_file_at_start = map_file
    /\ global_map = NewGlobalNamespaceMap(compute_config_hash(config))
    /\ analyzer = NoAnalysis
    /\ resolver = NewResolver
    /\ global_resolved = EmptyDict
    /\ order = <<>>
    /\ out_files = EmptyDict
    /\ written = 0
    /\ stub_call = NoStubCall
    /\ report = NoReport
    /\ runs = <<>>
    /\ tokenize_call = NoTokenizeCall
    /\ NoNormalization

MapFrame == <<NormVars, stub_call, RunVars, tokenize_call, args, config, uid_to_item, hashseed, analyzer, resolver, global_resolved,
              order, out_files, written>>

\* global_map.load(accept_legacy=args.accept_legacy_cache)
MapLoad ==
    /\ pc = "map_new"
    /\ global_map' = load(global_map, map_file, args.accept_legacy_cache)
    /\ pc' = "map_loaded"
    /\ UNCHANGED <<map_file, map_file_at_start, MapFrame>>

\* global_map.lookup(uid)
MapLookup(uid) ==
    /\ pc = "map_loaded"
    /\ global_map' = lookup_map(global_map, uid)
    /\ UNCHANGED <<pc, map_file, map_file_at_start, MapFrame>>

\* global_map.update(uid, path)
MapUpdate(uid, path) ==
    /\ pc = "map_loaded"
    /\ global_map' = update(global_map, uid, path)
    /\ UNCHANGED <<pc, map_file, map_file_at_start, MapFrame>>

\* save(): the run id, last_seen and pruning, before the file is touched
SaveBegin ==
    /\ pc = "map_loaded"
    /\ global_map.meta.run_id < MaxRunId
    /\ LET threshold == IF args.prune_stale
                        THEN config.thresholds.stale_prune_after_runs ELSE 0
       IN  global_map' = save_state(global_map, threshold)
    /\ pc' = "map_saving"
    /\ UNCHANGED <<map_file, map_file_at_start, MapFrame>>

\* write_text opens the file: whatever it held is gone
SaveTruncate ==
    /\ pc = "map_saving"
    /\ map_file' = PartialFile
    /\ pc' = "map_writing"
    /\ UNCHANGED <<global_map, map_file_at_start, MapFrame>>

\* write_text writes the whole text and closes the file
SaveWrite ==
    /\ pc = "map_writing"
    /\ map_file' = SavedDoc(global_map)
    /\ pc' = "map_saved"
    /\ UNCHANGED <<global_map, map_file_at_start, MapFrame>>

\* the process dies, or the write fails, after the file was opened
SaveCrash ==
    /\ pc = "map_writing"
    /\ pc' = "map_crashed"
    /\ UNCHANGED <<global_map, map_file, map_file_at_start, MapFrame>>

\* the next run builds a new object over the file the last run left
NextRun ==
    /\ pc \in {"map_saved", "map_crashed"}
    /\ global_map' = NewGlobalNamespaceMap(compute_config_hash(config))
    /\ map_file_at_start' = map_file
    /\ pc' = "map_new"
    /\ UNCHANGED <<map_file, MapFrame>>

NextMap ==
    \/ MapLoad
    \/ \E uid \in Uids : MapLookup(uid)
    \/ \E uid \in Uids : MapUpdate(uid, P_StoryHero)
    \/ SaveBegin
    \/ SaveTruncate
    \/ SaveWrite
    \/ SaveCrash
    \/ NextRun

SpecMap == InitMap /\ [][NextMap]_vars

(***************************************************************************)
(* Properties of the persistent map                                        *)
(***************************************************************************)
\* C9: at every point of save(), a crash part-way through included, the map
\* file holds the complete previous document or the complete new one.
C9_SaveIsAtomic ==
    pc \in {"map_saving", "map_writing", "map_crashed", "map_saved"}
        => map_file \in {map_file_at_start, SavedDoc(global_map)}

\* the uids a document maps to a bare path string
BareUids(file) ==
    {u \in DOMAIN file.mapping : "last_seen" \notin DOMAIN file.mapping[u]}

\* the run counter load() takes from a document
LoadedRunId(file) == IF "run_id" \in DOMAIN file.meta THEN file.meta.run_id ELSE 0

\* a run has loaded a document with the legacy opt-in and saved it
LegacyLoadedAndSaved ==
    /\ pc = "map_saved"
    /\ args.accept_legacy_cache
    /\ map_file_at_start.state = "doc"

\* C10 as stated: every bare-string entry is saved as {path, last_seen} with
\* last_seen equal to the new run counter.
C10_LegacyEntriesGetNewRunId ==
    LegacyLoadedAndSaved =>
        \A u \in BareUids(map_file_at_start) :
            /\ u \in DOMAIN map_file.mapping
            /\ DOMAIN map_file.mapping[u] = {"path", "last_seen"}
            /\ map_file.mapping[u].last_seen = map_file.meta.run_id

\* C10, amended: every bare-string entry is saved as {path, last_seen}; its
\* last_seen is the new run counter if the entry was looked up or updated
\* between the load and the save, and otherwise the run counter the loaded
\* document carried (0 if it carried none).
C10_LegacyMigration ==
    LegacyLoadedAndSaved =>
        \A u \in BareUids(map_file_at_start) :
            /\ u \in DOMAIN map_file.mapping
            /\ DOMAIN map_file.mapping[u] = {"path", "last_seen"}
            /\ map_file.mapping[u].last_seen =
                  IF u \in global_map.accessed_uids THEN map_file.meta.run_id
                  ELSE LoadedRunId(map_file_at_start)

\* a legacy document saved with one bare entry that was accessed and one
\* that was not
C10_Witness ==
    /\ LegacyLoadedAndSaved
    /\ \E u, v \in BareUids(map_file_at_start) :
          /\ u \in global_map.accessed_uids
          /\ v \notin global_map.accessed_uids
          /\ map_file.mapping[v].last_seen = LoadedRunId(map_file_at_start)
          /\ map_file.mapping[u].last_seen = map_file.meta.run_id

(***************************************************************************)
(* Normalization pass: root names and token boundaries                     *)
(* (src/src/canonicalize_root_name.py, project_token_boundaries.py,        *)
(*  normalization_root.py)                                                 *)
(***************************************************************************)
MIN_ACRONYM_LEN == 2

CanonicalToken(token) ==
    IF Len(token) >= MIN_ACRONYM_LEN /\ StrIsUpper(token) THEN token
    ELSE IF token # <<>> THEN <<ToUpperChar(Head(token))>> \o StrLower(Tail(token))
    ELSE <<>>

canonicalize_root_name(tokens) ==
    Flatten([i \in DOMAIN tokens |-> CanonicalToken(tokens[i])])

\* canonicalize_root_name(tokenizer.tokenize(cluster_key))
RootNameOf(cluster_key) == canonicalize_root_name(tokenize(cluster_key))

RECURSIVE CharMapping(_, _, _, _)
\* the mapping list both projections build: for each character of the
\* normalized name from position i on, <<its 0-based index in sanitized>>, or
\* <<>> for None
CharMapping(normalized, sanitized, i, s_idx) ==
    IF i > Len(normalized) THEN <<>>
    ELSE IF s_idx < Len(sanitized)
            /\ ToLowerChar(normalized[i]) = ToLowerChar(sanitized[s_idx + 1])
         THEN << <<s_idx>> >> \o CharMapping(normalized, sanitized, i + 1, s_idx + 1)
         ELSE << <<>> >> \o CharMapping(normalized, sanitized, i + 1, s_idx)

MinOf(S) == CHOOSE x \in S : \A y \in S : x <= y

\* the sanitized offset of the first preserved character at or after offset k
TargetIndex(mapping, k, sanitized_len) ==
    IF \E j \in (k + 1)..Len(mapping) : mapping[j] # <<>>
    THEN mapping[MinOf({j \in (k + 1)..Len(mapping) : mapping[j] # <<>>})][1]
    ELSE sanitized_len

ProjectWith(mapping, normalized_len, sanitized_len, normalized_boundaries) ==
    {0, sanitized_len}
    \cup {TargetIndex(mapping, k, sanitized_len) :
            k \in normalized_boundaries \ {0, normalized_len}}

\* (sanitized_boundaries, success)
project_token_boundaries(normalized, sanitized, normalized_boundaries) ==
    IF normalized = <<>>
    THEN (IF sanitized = <<>> THEN [sanitized_boundaries |-> {0}, success |-> TRUE]
          ELSE [sanitized_boundaries |-> {}, success |-> FALSE])
    ELSE [sanitized_boundaries |->
              ProjectWith(CharMapping(normalized, sanitized, 1, 0), Len(normalized),
                          Len(sanitized), normalized_boundaries),
          success |-> TRUE]

\* the dataclass constructor with __post_init__
NormalizationRoot(normalized_name, source_cluster_key, items) ==
    [normalized_name |-> normalized_name, source_cluster_key |-> source_cluster_key,
     items |-> items, sanitized_name |-> <<>>, token_boundaries |-> {},
     boundaries_unknown |-> FALSE, pre_merge_size |-> Len(items), scope_token |-> <<>>]

\* norm_boundaries of compute_metadata: 0 and the running sums of token lengths
NormBoundaries(tokens) ==
    {0} \cup {Len(Flatten(SubSeq(tokens, 1, i))) : i \in 1..Len(tokens)}

\* the end of compute_metadata: every branch of the escape hatch leaves the
\* boundaries unknown
StoreProjection(root, sanitized_name, projection) ==
    [root EXCEPT !.sanitized_name = sanitized_name,
                 !.token_boundaries = IF projection.success
                                      THEN projection.sanitized_boundaries ELSE @,
                 !.boundaries_unknown = ~projection.success]

ProjectRoot(root, sanitized_name) ==
    StoreProjection(root, sanitized_name,
        project_token_boundaries(root.normalized_name, sanitized_name,
                                 NormBoundaries(tokenize(root.source_cluster_key))))

compute_metadata(root, acronyms, seed) ==
    ProjectRoot(root, normalize(acronyms, seed, root.normalized_name))

(***************************************************************************)
(* Normalization pass (src/src/normalization_pass.py)                      *)
(***************************************************************************)
MIN_PREFIX_LEN == 5
SIMILARITY_THRESHOLD == <<7, 10>>     \* 0.7, as numerator and denominator
HIGH_CONFIDENCE_PREFIX_LEN == 7
SMALL_CLUSTER_SIZE == 20
MAX_SUBFOLDER_TOKENS == 50

\* the object after __init__ and whatever run() has stored in it since; the
\* sanitizer is the one built from the configured acronyms
Self ==
    [config |-> config,
     acronyms |-> config.acronyms,
     seed |-> hashseed,
     min_cluster_size |-> config.thresholds.min_cluster_size,
     max_top_level |-> IF "max_top_level_folders" \in DOMAIN config.thresholds
                       THEN config.thresholds.max_top_level_folders ELSE 40,
     pinned_roots |-> config.rules.pinned_roots,
     pinned_allow_singleton |-> config.rules.pinned_allow_singleton,
     roots |-> roots,
     union_find |-> union_find,
     root_sizes |-> root_sizes]

\* the keys of a dict in insertion order; the dicts run() is given are filled
\* in the order of the metadata index
InOrder(d) == SelectSeq(UidSeq, LAMBDA u : u \in DOMAIN d)

\* the uids assigned to the root called name, in iteration order
MembersInOrder(assignments, name) ==
    SelectSeq(InOrder(assignments),
              LAMBDA u : RootNameOf(assignments[u].cluster_key) = name)

ItemsOf(items_by_uid, members) == [i \in DOMAIN members |-> items_by_uid[members[i]]]

\* the root as the first loop of _initialize_roots leaves it: created for the
\* first cluster key that gives the name, then one append per item
GroupedRoot(name, cluster_key, tokens, items) ==
    [NormalizationRoot(name, cluster_key, <<>>) EXCEPT
        !.scope_token = IF tokens # <<>> THEN Head(tokens) ELSE <<>>,
        !.items = items]

GroupRoot(name, cluster_key, items) ==
    GroupedRoot(name, cluster_key, tokenize(cluster_key), items)

RootNames(assignments) ==
    {RootNameOf(assignments[u].cluster_key) : u \in DOMAIN assignments}

\* _initialize_roots: self.roots, self.union_find, self.root_sizes
initialize_roots(self, assignments, items_by_uid) ==
    [self EXCEPT
        !.roots = [name \in RootNames(assignments) |->
                      compute_metadata(
                          GroupRoot(name,
                                    assignments[Head(MembersInOrder(assignments, name))]
                                        .cluster_key,
                                    ItemsOf(items_by_uid,
                                            MembersInOrder(assignments, name))),
                          self.acronyms, self.seed)],
        !.union_find = [name \in RootNames(assignments) |-> name],
        !.root_sizes = [name \in RootNames(assignments) |->
                           Len(MembersInOrder(assignments, name))]]

RECURSIVE find(_, _)
\* _find: the representative
find(uf, name) == IF uf[name] = name THEN name ELSE find(uf, uf[name])

RECURSIVE PathOf(_, _)
\* the names _find(name) walks through before it reaches the representative
PathOf(uf, name) == IF uf[name] = name THEN {} ELSE {name} \cup PathOf(uf, uf[name])

\* _find: self.union_find after the path compression of the calls _find(n),
\* n in names
find_compress(uf, names) ==
    [n \in DOMAIN uf |->
        IF \E m \in names : n \in PathOf(uf, m) THEN find(uf, n) ELSE uf[n]]

\* _union, once both representatives are known
Link(uf, pinned_roots, root_a, root_b) ==
    IF root_a = root_b THEN uf
    ELSE IF root_a \in pinned_roots /\ root_b \in pinned_roots THEN uf
    ELSE IF root_a \in pinned_roots THEN [uf EXCEPT ![root_b] = root_a]
    ELSE IF root_b \in pinned_roots THEN [uf EXCEPT ![root_a] = root_b]
    ELSE IF StrLess(root_a, root_b) THEN [uf EXCEPT ![root_b] = root_a]
    ELSE [uf EXCEPT ![root_a] = root_b]

\* a _union in which no root is pinned
union_ignoring_pins(uf, pinned_roots, name_a, name_b) ==
    Link(find_compress(uf, {name_a, name_b}), {}, find(uf, name_a), find(uf, name_b))

\* _union
union(uf, pinned_roots, name_a, name_b) ==
    Link(find_compress(uf, {name_a, name_b}), pinned_roots,
         find(uf, name_a), find(uf, name_b))

\* _check_cap_pressure
check_cap_pressure(self) ==
    Cardinality({name \in DOMAIN self.roots :
                    \/ Len(self.roots[name].items) >= self.min_cluster_size
                    \/ (name \in self.pinned_roots /\ Len(self.roots[name].items) >= 1)})
        > self.max_top_level

RECURSIVE CommonPrefixLen(_, _)
CommonPrefixLen(a, b) ==
    IF a = <<>> \/ b = <<>> \/ Head(a) # Head(b) THEN 0
    ELSE 1 + CommonPrefixLen(Tail(a), Tail(b))

\* _score_pair; NoEntry stands for None
score_pair(self, root_a, root_b, scope_token) ==
    IF root_a \in self.pinned_roots /\ root_b \in self.pinned_roots THEN NoEntry
    ELSE IF CommonPrefixLen(root_a, root_b) < MIN_PREFIX_LEN THEN NoEntry
    ELSE [scope_token |-> scope_token,
          prefix_len |-> CommonPrefixLen(root_a, root_b),
          merged_size |-> self.root_sizes[root_a] + self.root_sizes[root_b],
          root_a |-> root_a,
          root_b |-> root_b,
          winner |-> IF StrLess(root_a, root_b) THEN root_a ELSE root_b,
          loser |-> IF StrLess(root_a, root_b) THEN root_b ELSE root_a]

\* name[:5]
Prefix5(name) == SubSeq(name, 1, IF Len(name) < 5 THEN Len(name) ELSE 5)

BucketKey(self, name) == <<self.roots[name].scope_token, Prefix5(name)>>

\* _generate_candidate_pairs: within a bucket, every pair in sorted order
generate_candidate_pairs(self) ==
    {score_pair(self, ab[1], ab[2], self.roots[ab[1]].scope_token) :
        ab \in {p \in (DOMAIN self.roots) \X (DOMAIN self.roots) :
                   /\ StrLess(p[1], p[2])
                   /\ BucketKey(self, p[1]) = BucketKey(self, p[2])}}
    \ {NoEntry}

\* the sort key of _merge_micro_variants:
\* (scope_token, -prefix_len, -merged_size, winner, loser)
PairBefore(p, q) ==
    IF p.scope_token # q.scope_token THEN StrLess(p.scope_token, q.scope_token)
    ELSE IF p.prefix_len # q.prefix_len THEN p.prefix_len > q.prefix_len
    ELSE IF p.merged_size # q.merged_size THEN p.merged_size > q.merged_size
    ELSE IF p.winner # q.winner THEN StrLess(p.winner, q.winner)
    ELSE StrLess(p.loser, q.loser)

FirstPair(pairs) == CHOOSE p \in pairs : \A q \in pairs \ {p} : PairBefore(p, q)

RECURSIVE SortPairs(_)
\* pairs.sort(key=...)
SortPairs(pairs) ==
    IF pairs = {} THEN <<>>
    ELSE <<FirstPair(pairs)>> \o SortPairs(pairs \ {FirstPair(pairs)})

CountMapped(mapping, n) == Cardinality({i \in 1..n : mapping[i] # <<>>})

\* _project_length
project_length(root, length_norm) ==
    CountMapped(CharMapping(root.normalized_name, root.sanitized_name, 1, 0),
                IF length_norm < Len(root.normalized_name) THEN length_norm
                ELSE Len(root.normalized_name))

HasBoundary(root, prefix_len_norm) ==
    /\ ~root.boundaries_unknown
    /\ project_length(root, prefix_len_norm) \in root.token_boundaries

\* ratio >= SIMILARITY_THRESHOLD, with ratio = prefix_len_norm / min(len, len)
RatioPasses(prefix_len_norm, len_a, len_b) ==
    prefix_len_norm * SIMILARITY_THRESHOLD[2]
        >= SIMILARITY_THRESHOLD[1] * (IF len_a < len_b THEN len_a ELSE len_b)

\* a guard that lets every pair pass
check_false_friends_passing(root_a, root_b, prefix_len_norm) == TRUE

\* _check_false_friends
check_false_friends(root_a, root_b, prefix_len_norm) ==
    IF root_a.boundaries_unknown /\ root_b.boundaries_unknown
    THEN /\ RatioPasses(prefix_len_norm, Len(root_a.normalized_name),
                        Len(root_b.normalized_name))
         /\ prefix_len_norm >= HIGH_CONFIDENCE_PREFIX_LEN
    ELSE \/ HasBoundary(root_a, prefix_len_norm)
         \/ HasBoundary(root_b, prefix_len_norm)
         \/ RatioPasses(prefix_len_norm, Len(root_a.normalized_name),
                        Len(root_b.normalized_name))

\* _check_utility: cap pressure changes nothing
check_utility(self, root_a, root_b, prefix_len, cap_pressure) ==
    \/ /\ self.root_sizes[root_a.normalized_name] < SMALL_CLUSTER_SIZE
       /\ self.root_sizes[root_b.normalized_name] < SMALL_CLUSTER_SIZE
    \/ prefix_len >= HIGH_CONFIDENCE_PREFIX_LEN
    \/ (cap_pressure /\ FALSE)

\* _should_merge_density
should_merge_density(self, name_a, name_b) ==
    \/ self.root_sizes[name_a] + self.root_sizes[name_b] >= self.min_cluster_size
    \/ self.root_sizes[name_a] >= self.min_cluster_size
    \/ name_a \in self.pinned_roots
    \/ self.root_sizes[name_b] >= self.min_cluster_size
    \/ name_b \in self.pinned_roots

\* one turn of the loop of _execute_merges: self.union_find afterwards
MergePair(self, uf, p, cap_pressure) ==
    IF find(uf, p.root_a) = find(uf, p.root_b)
    THEN find_compress(uf, {p.root_a, p.root_b})
    ELSE IF /\ check_false_friends(self.roots[p.root_a], self.roots[p.root_b],
                                   p.prefix_len)
            /\ check_utility(self, self.roots[p.root_a], self.roots[p.root_b],
                             p.prefix_len, cap_pressure)
            /\ should_merge_density(self, p.root_a, p.root_b)
         THEN union(uf, self.pinned_roots, p.root_a, p.root_b)
         ELSE find_compress(uf, {p.root_a, p.root_b})

RECURSIVE execute_merges(_, _, _, _)
\* _execute_merges
execute_merges(self, uf, pairs, cap_pressure) ==
    IF pairs = <<>> THEN uf
    ELSE execute_merges(self, MergePair(self, uf, Head(pairs), cap_pressure),
                        Tail(pairs), cap_pressure)

\* _merge_micro_variants
merge_micro_variants(self) ==
    [self EXCEPT !.union_find =
        execute_merges(self, self.union_find, SortPairs(generate_candidate_pairs(self)),
                       check_cap_pressure(self))]

\* _apply_merges: the returned dict
apply_merges(self, assignments) ==
    [uid \in DOMAIN assignments |->
        find(self.union_find, RootNameOf(assignments[uid].cluster_key))]

\* _apply_merges: self.union_find after its _find calls
apply_merges_self(self, assignments) ==
    [self EXCEPT !.union_find = find_compress(@, RootNames(assignments))]

RECURSIVE SumSizes(_, _)
SumSizes(sizes, names) ==
    IF names = {} THEN 0
    ELSE sizes[CHOOSE n \in names : TRUE]
         + SumSizes(sizes, names \ {CHOOSE n \in names : TRUE})

\* final_root_counts of _determine_kept_set
FinalRootCounts(self) ==
    [rep \in {find(self.union_find, name) : name \in DOMAIN self.root_sizes} |->
        SumSizes(self.root_sizes,
                 {name \in DOMAIN self.root_sizes : find(self.union_find, name) = rep})]

\* candidates sorted by (size DESC, root ASC), the first max_top_level of them
KeptNonPinned(counts, pinned_roots, min_cluster_size, max_top_level) ==
    {name \in DOMAIN counts :
        /\ name \notin pinned_roots
        /\ counts[name] >= min_cluster_size
        /\ Cardinality({o \in DOMAIN counts :
                           /\ o \notin pinned_roots
                           /\ counts[o] >= min_cluster_size
                           /\ \/ counts[o] > counts[name]
                              \/ (counts[o] = counts[name] /\ StrLess(o, name))})
               < max_top_level}

KeptPinned(counts, pinned_roots, min_cluster_size, pinned_allow_singleton) ==
    {name \in pinned_roots :
        /\ name \in DOMAIN counts
        /\ counts[name] > 0
        /\ (counts[name] >= min_cluster_size \/ pinned_allow_singleton)}

\* a kept set in which pinned roots compete for the top-K places like any
\* other root
determine_kept_set_capping_pinned(self) ==
    KeptNonPinned(FinalRootCounts(self), {}, self.min_cluster_size, self.max_top_level)

\* _determine_kept_set: the returned set
determine_kept_set(self) ==
    KeptNonPinned(FinalRootCounts(self), self.pinned_roots, self.min_cluster_size,
                  self.max_top_level)
    \cup KeptPinned(FinalRootCounts(self), self.pinned_roots, self.min_cluster_size,
                    self.pinned_allow_singleton)

\* _determine_kept_set: self.union_find after its _find calls
determine_kept_set_self(self) ==
    [self EXCEPT !.union_find = find_compress(@, DOMAIN self.root_sizes)]

RerouteTiers ==
    <<"metadata_hub", "priority_suffix", "strong_suffix", "strong_prefix", "keyword">>

\* candidates_by_tier[tier] without the filter on the kept set
TierCandidates_unfiltered(self, kept, signals, tier) ==
    {find(self.union_find, RootNameOf(signals[i].cluster_key)) :
        i \in {j \in DOMAIN signals :
                  /\ signals[j].rule_id = tier
                  /\ RootNameOf(signals[j].cluster_key) \in DOMAIN self.union_find}}

\* candidates_by_tier[tier] of _reroute_orphans
TierCandidates(self, kept, signals, tier) ==
    {find(self.union_find, RootNameOf(signals[i].cluster_key)) :
        i \in {j \in DOMAIN signals :
                  /\ signals[j].rule_id = tier
                  /\ RootNameOf(signals[j].cluster_key) \in DOMAIN self.union_find}}
    \cap kept

\* tier_cands.sort(); tier_cands[0]
MinStr(S) == CHOOSE x \in S : \A y \in S \ {x} : StrLess(x, y)

RECURSIVE BestRep(_, _, _, _)
BestRep(self, kept, signals, tiers) ==
    IF tiers = <<>> THEN None
    ELSE IF TierCandidates(self, kept, signals, Head(tiers)) # {}
         THEN MinStr(TierCandidates(self, kept, signals, Head(tiers)))
         ELSE BestRep(self, kept, signals, Tail(tiers))

OrMisc(best_rep) == IF Falsy(best_rep) THEN MiscKey ELSE best_rep

\* a rerouting step that leaves every orphan in the root it had
reroute_orphans_in_place(self, assignments, kept, signals_by_uid) == assignments

\* _reroute_orphans; after _determine_kept_set every name of the union-find
\* points at its representative, so the _find calls made here change nothing
reroute_orphans(self, assignments, kept, signals_by_uid) ==
    [uid \in DOMAIN assignments |->
        IF assignments[uid] \in kept THEN assignments[uid]
        ELSE OrMisc(BestRep(self, kept, DictGet(signals_by_uid, uid, <<>>),
                            RerouteTiers))]

\* self.config.get("max_folder_size", 250)
MaxFolderSize(cfg) ==
    IF "max_folder_size" \in DOMAIN cfg THEN cfg.max_folder_size ELSE 250

\* set(self.config.get("stop_tokens", []))
SplitStopTokens(cfg) == IF "stop_tokens" \in DOMAIN cfg THEN cfg.stop_tokens ELSE {}

RootCount(assignments, root) ==
    Cardinality({u \in DOMAIN assignments : assignments[u] = root})

Oversized(assignments, max_folder_size) ==
    {root \in Range(assignments) :
        RootCount(assignments, root) > max_folder_size /\ root # MiscKey}

RECURSIVE FirstSplitToken(_, _, _)
\* the first sanitized token that is not the root and whose lower-case form
\* is not a stop token
FirstSplitToken(norm_tokens, root, stop_tokens) ==
    IF norm_tokens = <<>> THEN None
    ELSE IF Head(norm_tokens) # root /\ StrLower(Head(norm_tokens)) \notin stop_tokens
         THEN Head(norm_tokens)
         ELSE FirstSplitToken(Tail(norm_tokens), root, stop_tokens)

SplitTokenOf(self, root, item) ==
    FirstSplitToken(NormTokens(self, self.seed, item.name), root,
                    SplitStopTokens(self.config))

\* uid_to_token
TokenKeys(self, root, assignments, items_by_uid) ==
    [uid \in {u \in DOMAIN assignments :
                 /\ assignments[u] = root
                 /\ ~Falsy(SplitTokenOf(self, root, items_by_uid[u]))} |->
        SplitTokenOf(self, root, items_by_uid[uid])]

LetterOf(name) ==
    IF ToUpperChar(Head(name)) \in UpperSet THEN <<ToUpperChar(Head(name))>>
    ELSE <<"_">>

\* uid_to_letter
LetterKeys(root, assignments, items_by_uid) ==
    [uid \in {u \in DOMAIN assignments : assignments[u] = root} |->
        LetterOf(items_by_uid[uid].name)]

DecideStrategy(uid_to_token, uid_to_letter) ==
    IF /\ Range(uid_to_token) # {}
       /\ Cardinality(Range(uid_to_token)) <= MAX_SUBFOLDER_TOKENS
    THEN uid_to_token ELSE uid_to_letter

\* _determine_split_strategy
determine_split_strategy(self, root, assignments, items_by_uid) ==
    DecideStrategy(TokenKeys(self, root, assignments, items_by_uid),
                   LetterKeys(root, assignments, items_by_uid))

SplitKey(keys, uid) ==
    IF uid \in DOMAIN keys /\ ~Falsy(keys[uid]) THEN keys[uid] ELSE <<"_">>

\* _apply_safety_valve
apply_safety_valve(self, assignments, items_by_uid) ==
    [uid \in DOMAIN assignments |->
        IF assignments[uid] \notin Oversized(assignments, MaxFolderSize(self.config))
        THEN assignments[uid]
        ELSE assignments[uid] \o <<"/">>
             \o SplitKey(determine_split_strategy(self, assignments[uid], assignments,
                                                  items_by_uid), uid)]

(***************************************************************************)
(* NormalizationPass.run, step by step                                     *)
(***************************************************************************)
Story == <<"S","t","o","r","y">>

\* the cluster keys the rule engine hands over
ClusterKeys == {Story, StoryBeat, Hero}

InitialAssignments ==
    [Uids -> {[rule_id |-> "strong_prefix", cluster_key |-> k] : k \in ClusterKeys}]

\* the candidate lists of the rule engine, the same for every item
SignalChoices ==
    { <<>>,
      << [rule_id |-> "type_family", cluster_key |-> Hero, score |-> 1],
         [rule_id |-> "strong_prefix", cluster_key |-> Story, score |-> 1] >>,
      << [rule_id |-> "keyword", cluster_key |-> Hero, score |-> 1],
         [rule_id |-> "strong_suffix", cluster_key |-> StoryBeat, score |-> 1] >> }

NormItemChoices(i) ==
    CASE i = 2 -> {GlobalClass(UidSeq[i], StoryBeat), GlobalClass(UidSeq[i], Story)}
      [] i = 3 -> {GlobalClass(UidSeq[i], HeroUI)}
      [] OTHER -> {GlobalClass(UidSeq[i], StoryEvent)}

NormCorpora == {f \in [Uids -> UNION {NormItemChoices(i) : i \in 1..NumItems}] :
                   \A i \in 1..NumItems : f[UidSeq[i]] \in NormItemChoices(i)}

\* a configuration as load_config returns it
NormalizationConfig(min_cluster_size, max_top_level_folders, max_folder_size, pinned_roots, pinned_allow_singleton) ==
    [LoadedConfig(FALSE, EmptyDict, min_cluster_size) EXCEPT
        !.thresholds.max_top_level_folders = max_top_level_folders,
        !.thresholds.max_folder_size = max_folder_size,
        !.rules.pinned_roots = pinned_roots,
        !.rules.pinned_allow_singleton = pinned_allow_singleton]

\* the same with a max_folder_size key at the top level of the document
WithTopLevelMaxFolderSize(cfg, max_folder_size) ==
    [max_folder_size |-> max_folder_size] @@ cfg

NormConfigs ==
    LET loaded == {NormalizationConfig(mcs, mtl, mfs, pinned, single) :
                      mcs \in {2, 3}, mtl \in {0, 1}, mfs \in {1, 2},
                      pinned \in {{}, {StoryBeat}, {Hero}}, single \in BOOLEAN}
    IN  loaded \cup {WithTopLevelMaxFolderSize(cfg, 1) : cfg \in loaded}

InitNorm ==
    /\ pc = "initialize_roots"
    /\ args = [dry_run |-> FALSE, force_rebuild |-> FALSE,
               accept_legacy_cache |-> FALSE, prune_stale |-> FALSE]
    /\ config \in NormConfigs
    /\ uid_to_item \in NormCorpora
    /\ hashseed = 0
    /\ map_file = AbsentFile
    /\ map_file_at_start = map_file
    /\ global_map = NewGlobalNamespaceMap(compute_config_hash(config))
    /\ analyzer = NoAnalysis
    /\ resolver = NewResolver
    /\ global_resolved = EmptyDict
    /\ order = <<>>
    /\ out_files = EmptyDict
    /\ written = 0
    /\ stub_call = NoStubCall
    /\ report = NoReport
    /\ runs = <<>>
    /\ tokenize_call = NoTokenizeCall
    /\ initial_assignments \in InitialAssignments
    /\ \E signals \in SignalChoices : original_signals = [u \in Uids |-> signals]
    /\ roots = <<>>
    /\ union_find = <<>>
    /\ root_sizes = <<>>
    /\ kept_roots = {}
    /\ final_assignments = <<>>

NormFrame == <<args, config, uid_to_item, hashseed, map_file, map_file_at_start,
               global_map, analyzer, resolver, global_resolved, order, out_files,
               written, stub_call, RunVars, tokenize_call, initial_assignments, original_signals>>

\* self.roots, self.union_find and self.root_sizes become those of the object
StoreSelf(self) ==
    /\ roots' = self.roots
    /\ union_find' = self.union_find
    /\ root_sizes' = self.root_sizes

\* 1. self._initialize_roots(initial_assignments, items_by_uid)
InitializeRoots ==
    /\ pc = "initialize_roots"
    /\ StoreSelf(initialize_roots(Self, initial_assignments, uid_to_item))
    /\ pc' = "merge_micro_variants"
    /\ UNCHANGED <<NormFrame, kept_roots, final_assignments>>

\* 2. self._merge_micro_variants()
MergeMicroVariants ==
    /\ pc = "merge_micro_variants"
    /\ StoreSelf(merge_micro_variants(Self))
    /\ pc' = "apply_merges"
    /\ UNCHANGED <<NormFrame, kept_roots, final_assignments>>

\* 3. final_assignments = self._apply_merges(initial_assignments)
ApplyMerges ==
    /\ pc = "apply_merges"
    /\ final_assignments' = apply_merges(Self, initial_assignments)
    /\ StoreSelf(apply_merges_self(Self, initial_assignments))
    /\ pc' = "determine_kept_set"
    /\ UNCHANGED <<NormFrame, kept_roots>>

\* 4. kept_roots = self._determine_kept_set()
DetermineKeptSet ==
    /\ pc = "determine_kept_set"
    /\ kept_roots' = determine_kept_set(Self)
    /\ StoreSelf(determine_kept_set_self(Self))
    /\ pc' = "reroute_orphans"
    /\ UNCHANGED <<NormFrame, final_assignments>>

\* 5. final_assignments = self._reroute_orphans(...)
RerouteOrphans ==
    /\ pc = "reroute_orphans"
    /\ final_assignments' =
           reroute_orphans(Self, final_assignments, kept_roots, original_signals)
    /\ pc' = "apply_safety_valve"
    /\ UNCHANGED <<NormFrame, roots, union_find, root_sizes, kept_roots>>

\* 6. return self._apply_safety_valve(final_assignments, items_by_uid)
ApplySafetyValve ==
    /\ pc = "apply_safety_valve"
    /\ final_assignments' = apply_safety_valve(Self, final_assignments, uid_to_item)
    /\ pc' = "returned"
    /\ UNCHANGED <<NormFrame, roots, union_find, root_sizes, kept_roots>>

NextNorm ==
    \/ InitializeRoots
    \/ MergeMicroVariants
    \/ ApplyMerges
    \/ DetermineKeptSet
    \/ RerouteOrphans
    \/ ApplySafetyValve

SpecNorm == InitNorm /\ [][NextNorm]_vars

(***************************************************************************)
(* Properties of the normalization pass                                    *)
(***************************************************************************)
RECURSIVE TopLevel(_)
\* the first component of a returned cluster key
TopLevel(key) ==
    IF key = <<>> \/ Head(key) = "/" THEN <<>> ELSE <<Head(key)>> \o TopLevel(Tail(key))

\* C5: once run() has returned, every returned folder key other than Misc (a
\* root, or root/split after subdivision) has at most thresholds.max_folder_size
\* items assigned directly to it.
C5_FolderSizeWithinThreshold ==
    pc = "returned" =>
        \A key \in Range(final_assignments) :
            key # MiscKey =>
                RootCount(final_assignments, key) <= config.thresholds.max_folder_size

\* the items of a root after merging: those whose root has it as representative
MembersAfterMerging(name) ==
    {u \in DOMAIN initial_assignments :
        find(union_find, RootNameOf(initial_assignments[u].cluster_key)) = name}

\* the pinned roots the claim speaks of
QualifyingPinnedRoots ==
    {name \in config.rules.pinned_roots \cap DOMAIN union_find :
        \/ Cardinality(MembersAfterMerging(name)) >= config.thresholds.min_cluster_size
        \/ /\ config.rules.pinned_allow_singleton
           /\ Cardinality(MembersAfterMerging(name)) >= 1}

\* C6: a pinned root is never merged under another root; every pinned root
\* that has min_cluster_size items after merging (or one item, when
\* pinned_allow_singleton is set) is in the kept set, and in the returned
\* assignments it is still the top-level root of each of its items, whatever
\* the other roots' sizes and max_top_level_folders are.
C6_PinnedRootsPersist ==
    /\ \A name \in config.rules.pinned_roots \cap DOMAIN union_find :
           find(union_find, name) = name
    /\ pc \in {"reroute_orphans", "apply_safety_valve", "returned"} =>
           QualifyingPinnedRoots \subseteq kept_roots
    /\ pc = "returned" =>
           \A name \in QualifyingPinnedRoots :
               \A u \in MembersAfterMerging(name) :
                   TopLevel(final_assignments[u]) = name

\* run() has returned; a pinned root qualified although no non-pinned root
\* may be kept, it had absorbed a root whose name sorts before its own, and
\* its folder was subdivided by the safety valve
C6_Witness ==
    /\ pc = "returned"
    /\ config.thresholds.max_top_level_folders = 0
    /\ \E name \in QualifyingPinnedRoots :
           /\ \E u \in MembersAfterMerging(name) :
                  /\ RootNameOf(initial_assignments[u].cluster_key) # name
                  /\ StrLess(RootNameOf(initial_assignments[u].cluster_key), name)
           /\ \E u \in MembersAfterMerging(name) : final_assignments[u] # name


\* C11: across runs over one map file the stored run counter never decreases
\* and grows by exactly one per save, also when load() discarded the file:
\* a run that started over a document and saved leaves a run counter one
\* above the one that document carried (0 if it carried none).
C11_RunCounterGrowsByOne ==
    pc = "map_saved" /\ map_file_at_start.state = "doc"
        => map_file.meta.run_id = LoadedRunId(map_file_at_start) + 1


\* the document was written by save() of this configuration
SavedByThisConfig(file) ==
    /\ file.state = "doc"
    /\ "config_hash" \in DOMAIN file.meta
    /\ file.meta.config_hash = compute_config_hash(config)

\* C12: save followed by load in a new instance gives back the mapping that
\* was saved (same uids, paths and last_seen), and the loaded run counter is
\* one more than the run counter before the save.
C12_SaveLoadRoundTrip ==
    [][/\ (pc = "map_loaded" /\ pc' = "map_saving")
            => global_map'.meta.run_id = global_map.meta.run_id + 1
       /\ (pc = "map_writing" /\ pc' = "map_saved")
            => \A accept_legacy \in BOOLEAN :
                  LET fresh == load(NewGlobalNamespaceMap(compute_config_hash(config)),
                                    map_file', accept_legacy)
                  IN  /\ fresh.mapping = global_map.mapping
                      /\ fresh.meta.run_id = global_map.meta.run_id
       /\ (pc = "map_new" /\ pc' = "map_loaded" /\ SavedByThisConfig(map_file))
            => /\ global_map'.mapping = map_file.mapping
               /\ global_map'.meta.run_id = map_file.meta.run_id]_vars

\* a new instance has loaded a saved document that holds an entry stamped in
\* the run that saved it and an entry stamped earlier
C12_Witness ==
    /\ pc = "map_loaded"
    /\ SavedByThisConfig(map_file)
    /\ map_file_at_start = map_file
    /\ global_map.accessed_uids = {}
    /\ global_map.mapping = map_file.mapping
    /\ global_map.meta.run_id = map_file.meta.run_id
    /\ \E u, v \in DOMAIN global_map.mapping :
          /\ global_map.mapping[u].last_seen = global_map.meta.run_id
          /\ global_map.mapping[v].last_seen < global_map.meta.run_id


\* the pruning threshold run_conversion passes to save()
PruneThreshold ==
    IF args.prune_stale THEN config.thresholds.stale_prune_after_runs ELSE 0

\* the age save() computes for an entry: the new run counter minus the
\* entry's last_seen, after the entries observed in this run were stamped
AgeAtSave(gm, uid) ==
    IF uid \in gm.accessed_uids THEN 0
    ELSE (gm.meta.run_id + 1) - gm.mapping[uid].last_seen

\* C13: save with threshold T removes an entry exactly when T > 0 and the new
\* run counter minus its last_seen, taken after the entries observed in this
\* run were stamped with the new run counter, is greater than T; an observed
\* entry is never removed, an entry of age exactly T is kept, and T = 0
\* removes nothing.
C13_PruneExactlyStale ==
    [][(pc = "map_loaded" /\ pc' = "map_saving") =>
          /\ \A u \in DOMAIN global_map.mapping :
                u \notin DOMAIN global_map'.mapping
                    <=> (PruneThreshold > 0 /\ AgeAtSave(global_map, u) > PruneThreshold)
          /\ DOMAIN global_map'.mapping \subseteq DOMAIN global_map.mapping
          /\ global_map.accessed_uids \cap DOMAIN global_map.mapping
                \subseteq DOMAIN global_map'.mapping
          /\ \A u \in DOMAIN global_map'.mapping :
                /\ global_map'.mapping[u].path = global_map.mapping[u].path
                /\ global_map'.mapping[u].last_seen =
                      IF u \in global_map.accessed_uids THEN global_map'.meta.run_id
                      ELSE global_map.mapping[u].last_seen
          /\ PruneThreshold = 0
                => DOMAIN global_map'.mapping = DOMAIN global_map.mapping]_vars

\* a save with pruning on has removed a stale entry of the loaded document,
\* kept an entry whose age is exactly the threshold, and kept an old entry
\* that was observed in this run
C13_Witness ==
    /\ pc = "map_saving"
    /\ PruneThreshold > 0
    /\ map_file.state = "doc"
    /\ \E u, v, w \in DOMAIN map_file.mapping :
          /\ u \notin DOMAIN global_map.mapping
          /\ v \in DOMAIN global_map.mapping
          /\ v \notin global_map.accessed_uids
          /\ global_map.meta.run_id - global_map.mapping[v].last_seen = PruneThreshold
          /\ w \in global_map.accessed_uids
          /\ w \in DOMAIN global_map.mapping
          /\ "last_seen" \in DOMAIN map_file.mapping[w]
          /\ global_map.meta.run_id - map_file.mapping[w].last_seen > PruneThreshold


\* the schema version load() reads from a document
SchemaVersionOf(file) ==
    IF "schema_version" \in DOMAIN file.meta THEN file.meta.schema_version ELSE 0

\* a map file that cannot be read, does not parse, does not have the shape of
\* a map document, or has another schema version while the legacy opt-in is off
Discarded(file, accept_legacy) ==
    \/ file.state \in {"unreadable", "partial", "malformed"}
    \/ /\ file.state = "doc"
       /\ SchemaVersionOf(file) # CURRENT_SCHEMA_VERSION
       /\ ~accept_legacy

\* C14: load() of a map document that is unreadable, unparseable or of another
\* schema version (legacy opt-in off) returns normally and leaves a map that
\* behaves as empty: every lookup returns no path.
C14_DiscardedLoadIsEmpty ==
    [][(pc = "map_new" /\ pc' # pc /\ Discarded(map_file, args.accept_legacy_cache)) =>
          /\ pc' = "map_loaded"
          /\ \A uid \in Uids : lookup_path(global_map', uid) = None]_vars

\* a document of another schema version that holds entries was loaded without
\* the opt-in and the map holds nothing
C14_Witness ==
    /\ pc = "map_loaded"
    /\ map_file.state = "doc"
    /\ SchemaVersionOf(map_file) # CURRENT_SCHEMA_VERSION
    /\ ~args.accept_legacy_cache
    /\ DOMAIN map_file.mapping = Uids
    /\ global_map.mapping = EmptyDict
    /\ global_map.meta.run_id = 0


(***************************************************************************)
(* StubGenerator.generate_stub called on its own (src/src/stub_generator.py)*)
(***************************************************************************)
ApiEvil == <<"a","p","i","_","e","v","i","l">>
XFile == <<"x">>

\* old-path strings: inside the base directory, leaving it through "..",
\* absolute, and into siblings whose name begins with the base's name
OldPathStrings ==
    {P_Story, P_StoryHero,
     <<DotDot, XFile>>,
     <<DotDot, <<"o","t","h","e","r">>, XFile>>,
     <<DotDot, ApiEvil, XFile>>,
     <<DotDot, <<"a","p","i","x">> >>,
     <<DotDot, BaseDir[2], GlobalSeg, Story>>,
     <<GlobalSeg, DotDot, DotDot, ApiEvil, XFile>>,
     << <<>>, <<"e","t","c">>, XFile>>,
     << <<>>, BaseDir[1], ApiEvil, XFile>>,
     << <<>>, BaseDir[1], BaseDir[2], GlobalSeg, Story>>}

\* what is on disk before the calls
StubStartFiles ==
    {EmptyDict,
     P_Story :> [kind |-> "page", uid |-> UidSeq[3]],
     <<DotDot, ApiEvil, XFile>> :> [kind |-> "other"]}

InitStub ==
    /\ pc = "stub_generator"
    /\ args = [dry_run |-> FALSE, force_rebuild |-> FALSE,
               accept_legacy_cache |-> FALSE, prune_stale |-> FALSE]
    /\ config = LoadedConfig(FALSE, EmptyDict, 3)
    /\ uid_to_item = EmptyDict
    /\ hashseed = 0
    /\ map_file = AbsentFile
    /\ map_file_at_start = map_file
    /\ global_map = NewGlobalNamespaceMap(compute_config_hash(config))
    /\ analyzer = NoAnalysis
    /\ resolver = NewResolver
    /\ global_resolved = EmptyDict
    /\ order = <<>>
    /\ out_files \in StubStartFiles
    /\ written = 0
    /\ stub_call = NoStubCall
    /\ report = NoReport
    /\ runs = <<>>
    /\ tokenize_call = NoTokenizeCall
    /\ NoNormalization

\* stub_gen.generate_stub(old_path_str, new_path_str, uid)
GenerateStub(old_path_str, new_path_str, uid) ==
    /\ pc = "stub_generator"
    /\ out_files' = generate_stub(out_files, old_path_str, new_path_str, uid).files
    /\ stub_call' = [old_path_str |-> old_path_str, new_path_str |-> new_path_str, uid |-> uid,
                     returned |-> generate_stub(out_files, old_path_str, new_path_str, uid).returned]
    /\ UNCHANGED <<NormVars, RunVars, tokenize_call, pc, args, config, uid_to_item, hashseed, map_file,
                   map_file_at_start, global_map, analyzer, resolver, global_resolved,
                   order, written>>

NextStub ==
    \E old_path_str \in OldPathStrings, uid \in {UidSeq[1], UidSeq[2]} :
        GenerateStub(old_path_str, P_StoryPage, uid)

SpecStub == InitStub /\ [][NextStub]_vars

\* the locations whose content a step created or changed
Touched == {k \in DOMAIN out_files' : k \notin DOMAIN out_files \/ out_files'[k] # out_files[k]}

\* the old-path string of the call names a location outside the base directory
CallEscapes(call) == ~InsideBase(FileKey(resolve_path(JoinPath(BaseDir, call.old_path_str))))

\* C15: generate_stub never writes a file whose resolved location is outside
\* the resolved base directory, whatever the old-path string (".." parts,
\* absolute paths, siblings whose name begins with the base's name); for
\* such a string it writes nothing and returns no content.
C15_NeverWritesOutsideBase ==
    [][/\ \A k \in Touched : InsideBase(k)
       /\ CallEscapes(stub_call') => (out_files' = out_files /\ stub_call'.returned = "None")]_vars

\* C16: generate_stub never creates, truncates or changes a file that exists
\* at the old path: it returns no content and the file is as it was.
C16_ExistingFileUntouched ==
    [][/\ \A k \in DOMAIN out_files : k \in DOMAIN out_files' /\ out_files'[k] = out_files[k]
       /\ FileKey(resolve_path(JoinPath(BaseDir, stub_call'.old_path_str))) \in DOMAIN out_files
             => stub_call'.returned = "None"]_vars

\* generate_stub was called on the path of a page that was there before, and
\* on the path of a stub an earlier call wrote; both are as they were
C16_Witness ==
    /\ stub_call.returned = "None"
    /\ stub_call.old_path_str = P_Story
    /\ P_Story \in DOMAIN out_files
    /\ out_files[P_Story].kind = "page"
    /\ P_StoryHero \in DOMAIN out_files
    /\ out_files[P_StoryHero].kind = "stub"
    /\ out_files[P_StoryHero].uid # stub_call.uid


(***************************************************************************)
(* Forwarding stubs within a pipeline run                                  *)
(***************************************************************************)
\* the path the persistent map held for a uid when the run started
StartPath(uid) ==
    IF map_file_at_start.state = "doc" /\ uid \in DOMAIN map_file_at_start.mapping
    THEN map_file_at_start.mapping[uid].path
    ELSE None

\* the uid the step has just resolved
JustResolved(uid) == uid \notin DOMAIN global_resolved /\ uid \in DOMAIN global_resolved'

StubsOf(uid) ==
    {k \in DOMAIN out_files : out_files[k].kind = "stub" /\ out_files[k].uid = uid}

StoryUI == <<"S","t","o","r","y","U","I">>
Actor == <<"A","c","t","o","r">>
Lore == <<"L","o","r","e">>
Gui == <<"G","u","i">>

\* rules.keyword_clusters: the buckets in the order of the configuration
KeywordClusterChoices ==
    {<<>>,
     <<[bucket |-> Lore, keywords |-> <<Story>>],
       [bucket |-> Gui, keywords |-> << <<"B","e","a","t">>, <<"U","I">> >>]>>,
     <<[bucket |-> Gui, keywords |-> << <<"U","I">> >>],
       [bucket |-> Lore, keywords |-> <<Story>>]>>}

RuleConfigs ==
    {[LoadedConfig(FALSE, EmptyDict, mcs) EXCEPT !.rules.keyword_clusters = kc] :
        mcs \in {2, 3}, kc \in KeywordClusterChoices}

\* global classes named StoryUI, StoryBeat or Hero; the first one may derive
\* from Actor
RuleItemChoices(i) ==
    {ItemInfo(UidSeq[i], "class", name, name, None, inheritance, <<>>) :
        name \in {StoryUI, StoryBeat, Hero},
        inheritance \in IF i = 1 THEN {<<>>, <<Actor>>} ELSE {<<>>}}

RuleCorpora ==
    {f \in [Uids -> UNION {RuleItemChoices(i) : i \in 1..NumItems}] :
        \A i \in 1..NumItems : f[UidSeq[i]] \in RuleItemChoices(i)}

InitRules ==
    /\ pc = "analyze"
    /\ args = [dry_run |-> FALSE, force_rebuild |-> FALSE,
               accept_legacy_cache |-> FALSE, prune_stale |-> FALSE]
    /\ config \in RuleConfigs
    /\ uid_to_item \in RuleCorpora
    /\ hashseed = 0
    /\ map_file = AbsentFile
    /\ map_file_at_start = map_file
    /\ global_map = NewGlobalNamespaceMap(compute_config_hash(config))
    /\ analyzer = NoAnalysis
    /\ resolver = NewResolver
    /\ global_resolved = EmptyDict
    /\ order = <<>>
    /\ out_files = EmptyDict
    /\ written = 0
    /\ stub_call = NoStubCall
    /\ report = NoReport
    /\ runs = <<>>
    /\ tokenize_call = NoTokenizeCall
    /\ NoNormalization

NextRules ==
    \/ AnalyzeMetadata
    \/ \E uid \in Uids : ResolveByRules(uid)

SpecRules == InitRules /\ [][NextRules]_vars

\* the winner of a resolved item followed by its runners-up
CandidatesOf(uid) ==
    <<Cand(global_resolved[uid].winning_rule, global_resolved[uid].cluster_key,
           global_resolved[uid].score)>> \o global_resolved[uid].ambiguity

\* the place of a rule in the fixed order
RuleRank(rule) ==
    CASE rule = "metadata_hub" -> 1
      [] rule = "priority_suffix" -> 2
      [] rule = "strong_prefix" -> 3
      [] rule = "strong_suffix" -> 4
      [] rule = "keyword" -> 5
      [] rule = "type_family" -> 6
      [] OTHER -> 7

\* the place of a bucket in the configuration
BucketIndex(key) ==
    CHOOSE i \in DOMAIN config.rules.keyword_clusters :
        config.rules.keyword_clusters[i].bucket = key

InFixedOrder(cands) ==
    \A i, j \in DOMAIN cands : i < j =>
        \/ RuleRank(cands[i].rule) < RuleRank(cands[j].rule)
        \/ /\ cands[i].rule = "keyword"
           /\ cands[j].rule = "keyword"
           /\ BucketIndex(cands[i].key) < BucketIndex(cands[j].key)

\* C18: for an item without cache entry or override the candidates come in
\* the order metadata_hub, priority_suffix, strong_prefix, strong_suffix,
\* keyword (one per matching bucket, in configuration order), type_family;
\* the first one is the winner and the others are the runners-up in that
\* order; when no rule matches the result is (misc, Misc, 0.1) alone.
C18_CandidatesInFixedOrder ==
    \A uid \in DOMAIN global_resolved :
        IF apply_rules(Ctx, uid_to_item[uid]) = <<>>
        THEN CandidatesOf(uid) = <<Cand("misc", MiscKey, 10)>>
        ELSE /\ CandidatesOf(uid) = apply_rules(Ctx, uid_to_item[uid])
             /\ InFixedOrder(CandidatesOf(uid))
             /\ \A i \in DOMAIN CandidatesOf(uid) : RuleRank(CandidatesOf(uid)[i].rule) <= 6

\* one resolved item matched every rule, both keyword buckets included, and
\* another matched none
C18_Witness ==
    \E u, v \in DOMAIN global_resolved :
        /\ Len(CandidatesOf(u)) = 7
        /\ [i \in 1..7 |-> RuleRank(CandidatesOf(u)[i].rule)] = <<1, 2, 3, 4, 5, 5, 6>>
        /\ CandidatesOf(u)[5].key = Gui
        /\ global_resolved[v].winning_rule = "misc"
        /\ global_resolved[v].ambiguity = <<>>

\* C19: the type_family rule emits a candidate exactly when the sanitized
\* first token has length >= 4 and prefix_counts[token] is at least
\* thresholds.min_family_size.
C19_TypeFamilyNeedsMinFamilySize ==
    \A uid \in DOMAIN global_resolved :
        LET first == Head(NormTokens(config, hashseed, uid_to_item[uid].name))
        IN  (\E i \in DOMAIN CandidatesOf(uid) : CandidatesOf(uid)[i].rule = "type_family")
                <=> /\ Len(first) >= 4
                    /\ DictGet(analyzer.prefix_counts, first, 0) >= config.thresholds.min_family_size


(***************************************************************************)
(* The sources resolve() consults                                          *)
(***************************************************************************)
\* path_overrides: none, one by full name, or overrides by uid for the first
\* and the third item next to the one by full name
SourceOverrides ==
    {EmptyDict,
     (Hero :> P_StoryPage),
     (UidSeq[1] :> P_StoryHero) @@ (UidSeq[3] :> P_Story) @@ (Hero :> P_StoryPage)}

InitSources ==
    /\ pc = "init_infra"
    /\ args \in [dry_run : {FALSE}, force_rebuild : BOOLEAN,
                 accept_legacy_cache : {FALSE}, prune_stale : {FALSE}]
    /\ \E ov \in SourceOverrides : config = LoadedConfig(FALSE, ov, 3)
    /\ uid_to_item \in Corpora
    /\ hashseed = 0
    /\ map_file \in StartFiles
    /\ map_file_at_start = map_file
    /\ global_map = NewGlobalNamespaceMap(compute_config_hash(config))
    /\ analyzer = NoAnalysis
    /\ resolver = NewResolver
    /\ global_resolved = EmptyDict
    /\ order = <<>>
    /\ out_files = EmptyDict
    /\ written = 0
    /\ stub_call = NoStubCall
    /\ report = NoReport
    /\ runs = <<>>
    /\ tokenize_call = NoTokenizeCall
    /\ NoNormalization

NextSources ==
    \/ InitInfra
    \/ AnalyzeMetadata
    \/ \E uid \in Uids : ResolveCached(uid)
    \/ \E uid \in Uids : ResolveOverrideUid(uid)
    \/ \E uid \in Uids : ResolveOverrideName(uid)
    \/ \E uid \in Uids : ResolveByRules(uid)
    \/ \E uid \in Uids : SkipItem(uid)

SpecSources == InitSources /\ [][NextSources]_vars

\* the result of the step for uid has this rule and is the path obtained from
\* this desired path by the collision step
DecidedBy(uid, rule, desired_path) ==
    /\ global_resolved'[uid].winning_rule = rule
    /\ global_resolved'[uid].final_path = resolve_collisions(resolver, uid, desired_path).path

\* C20: resolve asks the persistent map first (not at all under
\* force_rebuild), then path_overrides by uid, then path_overrides by full
\* name, then the naming rules; the first source with an entry gives the
\* desired path.
C20_SourcesInOrder ==
    [][\A uid \in Uids : JustResolved(uid) =>
          IF ~args.force_rebuild /\ ~Falsy(StartPath(uid))
          THEN DecidedBy(uid, "cache", StartPath(uid))
          ELSE IF uid \in DOMAIN config.path_overrides
          THEN DecidedBy(uid, "override_uid", config.path_overrides[uid])
          ELSE IF uid_to_item[uid].full_name \in DOMAIN config.path_overrides
          THEN DecidedBy(uid, "override_name",
                         config.path_overrides[uid_to_item[uid].full_name])
          ELSE global_resolved'[uid].winning_rule
                   \notin {"cache", "override_uid", "override_name"}]_vars

\* a cached item that also has an override was resolved from the cache, and
\* an item with overrides by uid and by full name from the one by uid
C20_Witness ==
    /\ ~args.force_rebuild
    /\ \E u, v \in DOMAIN global_resolved :
          /\ global_resolved[u].winning_rule = "cache"
          /\ u \in DOMAIN config.path_overrides
          /\ global_resolved[v].winning_rule = "override_uid"
          /\ v \in DOMAIN config.path_overrides
          /\ uid_to_item[v].full_name \in DOMAIN config.path_overrides


(***************************************************************************)
(* The normalization pass on the roots Ability and Abilities               *)
(***************************************************************************)
Ability == <<"A","b","i","l","i","t","y">>
Abilities == <<"A","b","i","l","i","t","i","e","s">>
AbilityJump == <<"A","b","i","l","i","t","y","J","u","m","p">>
AbilitiesList == <<"A","b","i","l","i","t","i","e","s","L","i","s","t">>

\* four items: the first two under the key Ability, the others under Abilities
AbilityUids == {UidSeq[i] : i \in 1..4}

AbilityAssignments ==
    {[u \in AbilityUids |->
         [rule_id |-> rule_id,
          cluster_key |-> IF u \in {UidSeq[1], UidSeq[2]} THEN Ability ELSE Abilities]] :
       rule_id \in {"strong_prefix", "type_family"}}

AbilityCorpora ==
    {[u \in AbilityUids |->
         GlobalClass(u, IF u \in {UidSeq[1], UidSeq[2]} THEN names[u][1] ELSE names[u][2])] :
       names \in [AbilityUids -> {<<Ability, Abilities>>, <<AbilityJump, AbilitiesList>>}]}

AbilitySignals ==
    { <<>>,
      << [rule_id |-> "strong_prefix", cluster_key |-> Ability, score |-> 1] >>,
      << [rule_id |-> "keyword", cluster_key |-> Hero, score |-> 1] >> }

InitAbility ==
    /\ pc = "initialize_roots"
    /\ args = [dry_run |-> FALSE, force_rebuild |-> FALSE,
               accept_legacy_cache |-> FALSE, prune_stale |-> FALSE]
    /\ \E mtl \in {1, 2, 40} : config = NormalizationConfig(3, mtl, 250, {}, FALSE)
    /\ uid_to_item \in AbilityCorpora
    /\ hashseed = 0
    /\ map_file = AbsentFile
    /\ map_file_at_start = map_file
    /\ global_map = NewGlobalNamespaceMap(compute_config_hash(config))
    /\ analyzer = NoAnalysis
    /\ resolver = NewResolver
    /\ global_resolved = EmptyDict
    /\ order = <<>>
    /\ out_files = EmptyDict
    /\ written = 0
    /\ stub_call = NoStubCall
    /\ report = NoReport
    /\ runs = <<>>
    /\ tokenize_call = NoTokenizeCall
    /\ initial_assignments \in AbilityAssignments
    /\ \E signals \in AbilitySignals : original_signals = [u \in AbilityUids |-> signals]
    /\ roots = <<>>
    /\ union_find = <<>>
    /\ root_sizes = <<>>
    /\ kept_roots = {}
    /\ final_assignments = <<>>

SpecAbility == InitAbility /\ [][NextNorm]_vars

\* C21: with the roots Ability (2 items) and Abilities (2 items),
\* min_cluster_size 3 and no pinned roots, the pass merges the two roots into
\* one set with representative Ability and returns all four items under
\* the root Ability.
C21_AbilityAbsorbsAbilities ==
    pc = "returned" =>
        /\ find(union_find, Abilities) = Ability
        /\ find(union_find, Ability) = Ability
        /\ \A u \in AbilityUids : TopLevel(final_assignments[u]) = Ability


(***************************************************************************)
(* Rerouting of orphans (step 3 of the normalization pass)                 *)
(***************************************************************************)
RerouteKeys == {Hero, Lore, Story, StoryBeat}

RerouteAssignments ==
    [Uids -> {[rule_id |-> "strong_prefix", cluster_key |-> k] : k \in RerouteKeys}]

\* candidate lists of the rule engine: with a type_family candidate, with two
\* candidates in one tier listed after one of a later tier, with a candidate
\* naming a root that may have been merged, with a candidate naming the root
\* Actor that no item was assigned to
RerouteSignals ==
    { <<>>,
      << [rule_id |-> "type_family", cluster_key |-> Hero, score |-> 1] >>,
      << [rule_id |-> "type_family", cluster_key |-> Hero, score |-> 1],
         [rule_id |-> "keyword", cluster_key |-> Lore, score |-> 1],
         [rule_id |-> "strong_prefix", cluster_key |-> Lore, score |-> 1],
         [rule_id |-> "strong_prefix", cluster_key |-> Hero, score |-> 1] >>,
      << [rule_id |-> "keyword", cluster_key |-> Hero, score |-> 1],
         [rule_id |-> "strong_suffix", cluster_key |-> StoryBeat, score |-> 1],
         [rule_id |-> "strong_suffix", cluster_key |-> Story, score |-> 1] >>,
      << [rule_id |-> "metadata_hub", cluster_key |-> Actor, score |-> 1],
         [rule_id |-> "keyword", cluster_key |-> Hero, score |-> 1],
         [rule_id |-> "priority_suffix", cluster_key |-> Lore, score |-> 1] >> }

InitReroute ==
    /\ pc = "initialize_roots"
    /\ args = [dry_run |-> FALSE, force_rebuild |-> FALSE,
               accept_legacy_cache |-> FALSE, prune_stale |-> FALSE]
    /\ \E mcs \in {1, 2}, mtl \in {1, 2} : config = NormalizationConfig(mcs, mtl, 250, {}, FALSE)
    /\ uid_to_item = [u \in Uids |-> GlobalClass(u, StoryEvent)]
    /\ hashseed = 0
    /\ map_file = AbsentFile
    /\ map_file_at_start = map_file
    /\ global_map = NewGlobalNamespaceMap(compute_config_hash(config))
    /\ analyzer = NoAnalysis
    /\ resolver = NewResolver
    /\ global_resolved = EmptyDict
    /\ order = <<>>
    /\ out_files = EmptyDict
    /\ written = 0
    /\ stub_call = NoStubCall
    /\ report = NoReport
    /\ runs = <<>>
    /\ tokenize_call = NoTokenizeCall
    /\ initial_assignments \in RerouteAssignments
    /\ \E first, others \in RerouteSignals :
           original_signals = [u \in Uids |-> IF u = UidSeq[1] THEN first ELSE others]
    /\ roots = <<>>
    /\ union_find = <<>>
    /\ root_sizes = <<>>
    /\ kept_roots = {}
    /\ final_assignments = <<>>

SpecReroute == InitReroute /\ [][NextNorm]_vars

\* the place of a rule in the precedence of the rerouting step, 0 for a rule
\* that is no tier
TierRank(rule_id) ==
    CASE rule_id = "metadata_hub" -> 1
      [] rule_id = "priority_suffix" -> 2
      [] rule_id = "strong_suffix" -> 3
      [] rule_id = "strong_prefix" -> 4
      [] rule_id = "keyword" -> 5
      [] OTHER -> 0

\* the original candidates of an item that survive: of a tier, naming a root
\* that existed, whose representative is kept
Survivors(uid) ==
    {i \in DOMAIN original_signals[uid] :
        /\ TierRank(original_signals[uid][i].rule_id) > 0
        /\ RootNameOf(original_signals[uid][i].cluster_key) \in DOMAIN union_find
        /\ find(union_find, RootNameOf(original_signals[uid][i].cluster_key)) \in kept_roots}

SurvivorRep(uid, i) == find(union_find, RootNameOf(original_signals[uid][i].cluster_key))

\* C22: in step 3 an item whose representative is kept stays where it is; an
\* orphan goes to Misc when none of its original candidates survives, and
\* otherwise to the representative of a surviving candidate of the first
\* non-empty tier (metadata_hub, priority_suffix, strong_suffix,
\* strong_prefix, keyword), the lexicographically smallest of that tier;
\* type_family candidates and candidates naming roots that never existed do
\* not count.
C22_OrphansReroutedByTier ==
    [][pc = "reroute_orphans" =>
        \A uid \in DOMAIN final_assignments :
            IF final_assignments[uid] \in kept_roots
            THEN final_assignments'[uid] = final_assignments[uid]
            ELSE IF Survivors(uid) = {}
            THEN final_assignments'[uid] = MiscKey
            ELSE \E i \in Survivors(uid) :
                    /\ final_assignments'[uid] = SurvivorRep(uid, i)
                    /\ \A j \in Survivors(uid) :
                           \/ TierRank(original_signals[uid][j].rule_id)
                                  > TierRank(original_signals[uid][i].rule_id)
                           \/ /\ TierRank(original_signals[uid][j].rule_id)
                                     = TierRank(original_signals[uid][i].rule_id)
                              /\ \/ SurvivorRep(uid, j) = SurvivorRep(uid, i)
                                 \/ StrLess(SurvivorRep(uid, i), SurvivorRep(uid, j))]_vars

\* the rerouting step has run: an orphan had a surviving keyword candidate
\* listed before two surviving strong_prefix candidates and went to the
\* smaller representative of the two, not to the keyword candidate's
C22_Witness ==
    /\ pc = "apply_safety_valve"
    /\ \E uid \in DOMAIN final_assignments :
           /\ find(union_find, RootNameOf(initial_assignments[uid].cluster_key)) \notin kept_roots
           /\ \E i, j, k \in Survivors(uid) :
                  /\ k < i /\ k < j
                  /\ original_signals[uid][k].rule_id = "keyword"
                  /\ original_signals[uid][i].rule_id = "strong_prefix"
                  /\ original_signals[uid][j].rule_id = "strong_prefix"
                  /\ StrLess(SurvivorRep(uid, i), SurvivorRep(uid, j))
                  /\ SurvivorRep(uid, k) = SurvivorRep(uid, j)
                  /\ final_assignments[uid] = SurvivorRep(uid, i)

\* the rerouting step has run: an orphan went to the representative that a
\* root named by one of its candidates had been merged into
ReroutedThroughMerge ==
    /\ pc = "apply_safety_valve"
    /\ \E uid \in DOMAIN final_assignments :
           /\ find(union_find, RootNameOf(initial_assignments[uid].cluster_key)) \notin kept_roots
           /\ \E i \in Survivors(uid) :
                  /\ RootNameOf(original_signals[uid][i].cluster_key) # SurvivorRep(uid, i)
                  /\ final_assignments[uid] = SurvivorRep(uid, i)


(***************************************************************************)
(* Runs of the pipeline over the same items, configuration and map         *)
(***************************************************************************)
\* the salts Python may give hash() in a process
HashSeeds == {0, 1}

ConName == <<"C","O","N">>

\* the first item is a class named CON, which the sanitizer replaces by its
\* placeholder
RepeatCorpora ==
    {[f EXCEPT ![UidSeq[1]] = GlobalClass(UidSeq[1], ConName)] : f \in Corpora}

RepeatStartFiles ==
    {file \in StartFiles :
        file.state = "doc" => DOMAIN file.mapping \subseteq {UidSeq[2]}}

InitRepeat ==
    /\ pc = "init_infra"
    /\ args \in [dry_run : BOOLEAN, force_rebuild : {FALSE},
                 accept_legacy_cache : {FALSE}, prune_stale : {FALSE}]
    /\ \E ov \in OverrideChoices : config = LoadedConfig(FALSE, ov, 2)
    /\ uid_to_item \in RepeatCorpora
    /\ hashseed \in HashSeeds
    /\ map_file \in RepeatStartFiles
    /\ map_file_at_start = map_file
    /\ global_map = NewGlobalNamespaceMap(compute_config_hash(config))
    /\ analyzer = NoAnalysis
    /\ resolver = NewResolver
    /\ global_resolved = EmptyDict
    /\ order = <<>>
    /\ out_files = PagesOf(map_file)
    /\ written = 0
    /\ stub_call = NoStubCall
    /\ report = NoReport
    /\ runs = <<>>
    /\ tokenize_call = NoTokenizeCall
    /\ NoNormalization

\* uid -> final path of the results of the run
FinalPaths == [uid \in DOMAIN global_resolved |-> global_resolved[uid].final_path]

\* the run is over; another process runs the pipeline on the same input files,
\* the same configuration and the map file as it was before the run
RunAgain ==
    /\ pc = "done"
    /\ runs = <<>>
    /\ tokenize_call = NoTokenizeCall
    /\ runs' = Append(runs, [order |-> order, paths |-> FinalPaths, report |-> report])
    /\ pc' = "init_infra"
    /\ config' = [config EXCEPT !.force_rebuild = FALSE]
    /\ hashseed' \in HashSeeds
    /\ map_file' = map_file_at_start
    /\ global_map' = NewGlobalNamespaceMap(compute_config_hash(config'))
    /\ analyzer' = NoAnalysis
    /\ resolver' = NewResolver
    /\ global_resolved' = EmptyDict
    /\ order' = <<>>
    /\ out_files' = PagesOf(map_file_at_start)
    /\ written' = 0
    /\ report' = NoReport
    /\ UNCHANGED <<NormVars, stub_call, tokenize_call, args, uid_to_item, map_file_at_start>>

NextRepeat == Next \/ RunAgain

SpecRepeat == InitRepeat /\ [][NextRepeat]_vars

\* the paths of this finished run are those of the first run
SamePathsAsFirstRun == (pc = "done" /\ runs # <<>>) => FinalPaths = runs[1].paths

\* the report of this finished run is that of the first run
SameReportAsFirstRun == (pc = "done" /\ runs # <<>>) => report = runs[1].report

\* C23: two runs given the same items, configuration and persistent map
\* produce the same final paths and the same report, also for an item whose
\* name sanitizes to the hash-derived placeholder.
C23_RunsAreIdentical == SamePathsAsFirstRun /\ SameReportAsFirstRun


(***************************************************************************)
(* The analyzer over items of every kind                                   *)
(***************************************************************************)
StoryRun == <<"S","t","o","r","y","R","u","n">>

\* the second item is a class or a method named StoryRun, without a namespace
\* or in the namespace Game
KindItemChoices(i) ==
    CASE i = 2 -> {ItemInfo(UidSeq[i], kind, StoryRun, StoryRun, namespace, <<>>, <<>>) :
                      kind \in {"class", "method"}, namespace \in {None, Game}}
      [] OTHER -> {GlobalClass(UidSeq[i], name) : name \in {StoryEvent, Hero, HeroUI}}

KindCorpora ==
    {f \in [Uids -> UNION {KindItemChoices(i) : i \in 1..NumItems}] :
        \A i \in 1..NumItems : f[UidSeq[i]] \in KindItemChoices(i)}

InitKinds ==
    /\ pc = "analyze"
    /\ args = [dry_run |-> FALSE, force_rebuild |-> FALSE,
               accept_legacy_cache |-> FALSE, prune_stale |-> FALSE]
    /\ \E mcs \in {2, 3} : config = LoadedConfig(FALSE, EmptyDict, mcs)
    /\ uid_to_item \in KindCorpora
    /\ hashseed = 0
    /\ map_file = AbsentFile
    /\ map_file_at_start = map_file
    /\ global_map = NewGlobalNamespaceMap(compute_config_hash(config))
    /\ analyzer = NoAnalysis
    /\ resolver = NewResolver
    /\ global_resolved = EmptyDict
    /\ order = <<>>
    /\ out_files = EmptyDict
    /\ written = 0
    /\ stub_call = NoStubCall
    /\ report = NoReport
    /\ runs = <<>>
    /\ tokenize_call = NoTokenizeCall
    /\ NoNormalization

NextKinds ==
    \/ AnalyzeMetadata
    \/ \E uid \in Uids : ResolveByRules(uid)
    \/ \E uid \in Uids : SkipItem(uid)

SpecKinds == InitKinds /\ [][NextKinds]_vars

\* the global items: of a type kind, with no namespace or the namespace Global
GlobalItems == {u \in DOMAIN uid_to_item : IsGlobalType(uid_to_item[u])}

\* how many global items have the token as the first token of their name
GlobalPrefixCount(token) ==
    Cardinality({u \in GlobalItems :
                    /\ tokenize(uid_to_item[u].name) # <<>>
                    /\ Head(NormTokens(config, hashseed, uid_to_item[u].name)) = token})

\* how many global items have the token as the last token of their name
GlobalSuffixCount(token) ==
    Cardinality({u \in GlobalItems :
                    /\ tokenize(uid_to_item[u].name) # <<>>
                    /\ NormTokens(config, hashseed, uid_to_item[u].name)
                           [Len(tokenize(uid_to_item[u].name))] = token})

\* C24: the prefix and suffix counts of the analyzer count the global items
\* only (kind class, struct, interface, enum or delegate and namespace absent
\* or Global); an item of another kind adds to no count, even without a
\* namespace.
C24_OnlyGlobalTypesCounted ==
    pc # "analyze" =>
        /\ \A token \in DOMAIN analyzer.prefix_counts :
               analyzer.prefix_counts[token] = GlobalPrefixCount(token)
        /\ \A token \in DOMAIN analyzer.suffix_counts :
               analyzer.suffix_counts[token] = GlobalSuffixCount(token)


(***************************************************************************)
(* The union-find of the normalization pass under any calls                *)
(***************************************************************************)
UnionFindNames == {Gui, Hero, Lore, Story, StoryBeat}

InitUnionFind ==
    /\ pc = "union_find"
    /\ args = [dry_run |-> FALSE, force_rebuild |-> FALSE,
               accept_legacy_cache |-> FALSE, prune_stale |-> FALSE]
    /\ \E pinned \in SUBSET {Hero, Lore, Story} :
           config = NormalizationConfig(3, 40, 250, pinned, FALSE)
    /\ uid_to_item = EmptyDict
    /\ hashseed = 0
    /\ map_file = AbsentFile
    /\ map_file_at_start = map_file
    /\ global_map = NewGlobalNamespaceMap(compute_config_hash(config))
    /\ analyzer = NoAnalysis
    /\ resolver = NewResolver
    /\ global_resolved = EmptyDict
    /\ order = <<>>
    /\ out_files = EmptyDict
    /\ written = 0
    /\ stub_call = NoStubCall
    /\ report = NoReport
    /\ runs = <<>>
    /\ tokenize_call = NoTokenizeCall
    /\ initial_assignments = <<>>
    /\ original_signals = <<>>
    /\ roots = <<>>
    /\ union_find = [name \in UnionFindNames |-> name]
    /\ root_sizes = <<>>
    /\ kept_roots = {}
    /\ final_assignments = <<>>

UnionFindFrame == <<NormFrame, pc, roots, root_sizes, kept_roots, final_assignments>>

\* self._union(name_a, name_b)
UnionCall(name_a, name_b) ==
    /\ pc = "union_find"
    /\ union_find' = union(union_find, Self.pinned_roots, name_a, name_b)
    /\ UNCHANGED UnionFindFrame

\* self._find(name)
FindCall(name) ==
    /\ pc = "union_find"
    /\ union_find' = find_compress(union_find, {name})
    /\ UNCHANGED UnionFindFrame

NextUnionFind ==
    \/ \E name \in UnionFindNames : FindCall(name)
    \/ \E name_a, name_b \in UnionFindNames : UnionCall(name_a, name_b)

SpecUnionFind == InitUnionFind /\ [][NextUnionFind]_vars

\* the names whose representative is rep
SetOf(rep) == {name \in DOMAIN union_find : find(union_find, name) = rep}

Representatives == {find(union_find, name) : name \in DOMAIN union_find}

\* at most one pinned root in each set; the representative is the pinned
\* member, or the smallest member when none is pinned
SetsWellFormed ==
    \A rep \in Representatives :
        /\ Cardinality(SetOf(rep) \cap Self.pinned_roots) <= 1
        /\ IF SetOf(rep) \cap Self.pinned_roots # {}
           THEN rep \in Self.pinned_roots
           ELSE \A name \in SetOf(rep) \ {rep} : StrLess(rep, name)

\* C25: after any sequence of _union and _find calls each set of the
\* union-find holds at most one pinned root, its representative is its pinned
\* member if it has one and its lexicographically smallest member otherwise,
\* and a _find call, which compresses paths, leaves the representative of
\* every name as it was.
C25_UnionFindInvariants ==
    /\ []SetsWellFormed
    /\ [][(\E name \in UnionFindNames : FindCall(name)) =>
              \A n \in UnionFindNames : find(union_find', n) = find(union_find, n)]_vars

\* a pinned representative has absorbed a name that sorts before it, and some
\* name is two links away from its representative, so that _find has a path
\* to compress
C25_Witness ==
    /\ \E rep \in Representatives \cap Self.pinned_roots :
           \E name \in SetOf(rep) : StrLess(name, rep)
    /\ \E name \in DOMAIN union_find : union_find[name] # find(union_find, name)
    /\ \E rep \in Representatives \ Self.pinned_roots : Cardinality(SetOf(rep)) >= 2


(***************************************************************************)
(* The token split of the safety valve (step 4)                            *)
(***************************************************************************)
ManagerStory == <<"M","a","n","a","g","e","r","S","t","o","r","y">>
Manager == <<"M","a","n","a","g","e","r">>

SplitAssignments ==
    [Uids -> {[rule_id |-> "strong_prefix", cluster_key |-> k] : k \in {Story, Hero}}]

SplitCorpora ==
    {[u \in Uids |-> GlobalClass(u, names[u])] :
        names \in [Uids -> {ManagerStory, StoryEvent, Story}]}

\* configurations as load_config returns them (Manager and Base are stop
\* tokens of rules.stop_tokens), and the same with max_folder_size at the top
\* level of the document
SplitConfigs ==
    LET loaded == {NormalizationConfig(mcs, 40, 1, {}, FALSE) : mcs \in {1, 2}}
    IN  loaded \cup {WithTopLevelMaxFolderSize(cfg, m) : cfg \in loaded, m \in {1, 2}}

InitSplit ==
    /\ pc = "initialize_roots"
    /\ args = [dry_run |-> FALSE, force_rebuild |-> FALSE,
               accept_legacy_cache |-> FALSE, prune_stale |-> FALSE]
    /\ config \in SplitConfigs
    /\ uid_to_item \in SplitCorpora
    /\ hashseed = 0
    /\ map_file = AbsentFile
    /\ map_file_at_start = map_file
    /\ global_map = NewGlobalNamespaceMap(compute_config_hash(config))
    /\ analyzer = NoAnalysis
    /\ resolver = NewResolver
    /\ global_resolved = EmptyDict
    /\ order = <<>>
    /\ out_files = EmptyDict
    /\ written = 0
    /\ stub_call = NoStubCall
    /\ report = NoReport
    /\ runs = <<>>
    /\ tokenize_call = NoTokenizeCall
    /\ initial_assignments \in SplitAssignments
    /\ original_signals = [u \in Uids |-> <<>>]
    /\ roots = <<>>
    /\ union_find = <<>>
    /\ root_sizes = <<>>
    /\ kept_roots = {}
    /\ final_assignments = <<>>

SpecSplit == InitSplit /\ [][NextNorm]_vars

\* the part of a returned key after root/
SplitPart(key) == SubSeq(key, Len(TopLevel(key)) + 2, Len(key))

RECURSIVE FirstQualifying(_, _, _)
\* the first token that is neither the root nor one of the stop tokens
FirstQualifying(norm_tokens, root, stop_tokens) ==
    IF norm_tokens = <<>> THEN <<"_">>
    ELSE IF Head(norm_tokens) # root /\ Head(norm_tokens) \notin stop_tokens
         THEN Head(norm_tokens)
         ELSE FirstQualifying(Tail(norm_tokens), root, stop_tokens)

\* C26: in the token split of step 4 the split key of a member item is its
\* first sanitized token that is neither the root name nor in
\* rules.stop_tokens, and `_` when it has none; a configured stop token such
\* as Manager is never a split key.  (A folder split by first letter has the
\* letter as key.)
C26_SplitKeySkipsStopTokens ==
    pc = "returned" =>
        \A uid \in DOMAIN final_assignments :
            Len(TopLevel(final_assignments[uid])) < Len(final_assignments[uid]) =>
                /\ SplitPart(final_assignments[uid]) \notin config.rules.stop_tokens
                /\ SplitPart(final_assignments[uid]) \in
                       {FirstQualifying(NormTokens(config, hashseed, uid_to_item[uid].name),
                                        TopLevel(final_assignments[uid]),
                                        config.rules.stop_tokens),
                        LetterOf(uid_to_item[uid].name)}


(***************************************************************************)
(* The tokenizer over bounded identifiers                                  *)
(***************************************************************************)
\* longest identifier handed to tokenize
MaxIdLen == 4

IdChars == {"I", "W", "o", "r", "2", "_"}

RECURSIVE Strings(_, _)
\* the strings over chars of length n
Strings(chars, n) ==
    IF n = 0 THEN {<<>>}
    ELSE {Append(s, c) : s \in Strings(chars, n - 1), c \in chars}

Identifiers == UNION {Strings(IdChars, n) : n \in 1..MaxIdLen}

InitTokenize ==
    /\ pc = "tokenizer"
    /\ args = [dry_run |-> FALSE, force_rebuild |-> FALSE,
               accept_legacy_cache |-> FALSE, prune_stale |-> FALSE]
    /\ config = LoadedConfig(FALSE, EmptyDict, 3)
    /\ uid_to_item = EmptyDict
    /\ hashseed = 0
    /\ map_file = AbsentFile
    /\ map_file_at_start = map_file
    /\ global_map = NewGlobalNamespaceMap(compute_config_hash(config))
    /\ analyzer = NoAnalysis
    /\ resolver = NewResolver
    /\ global_resolved = EmptyDict
    /\ order = <<>>
    /\ out_files = EmptyDict
    /\ written = 0
    /\ stub_call = NoStubCall
    /\ report = NoReport
    /\ runs = <<>>
    /\ tokenize_call = NoTokenizeCall
    /\ NoNormalization

\* tokenizer.tokenize(text); the tokenizer keeps no state between calls, one
\* call is followed
Tokenize(text) ==
    /\ pc = "tokenizer"
    /\ ~tokenize_call.called
    /\ tokenize_call' = [text |-> text, returned |-> tokenize(text), called |-> TRUE]
    /\ UNCHANGED <<NormVars, stub_call, RunVars, pc, args, config, uid_to_item, hashseed,
                   map_file, map_file_at_start, global_map, analyzer, resolver,
                   global_resolved, order, out_files, written>>

NextTokenize == \E text \in Identifiers : Tokenize(text)

SpecTokenize == InitTokenize /\ [][NextTokenize]_vars

RECURSIVE SkipSeparators(_, _)
\* the first position from i on that holds no separator
SkipSeparators(text, i) ==
    IF i <= Len(text) /\ text[i] \in {"_", "+"} THEN SkipSeparators(text, i + 1) ELSE i

RECURSIVE TokenEnds(_, _, _)
\* the positions in text of the last characters of the tokens, the tokens
\* being taken from text in order from position i on
TokenEnds(text, toks, i) ==
    IF toks = <<>> THEN {}
    ELSE {SkipSeparators(text, i) + Len(Head(toks)) - 1}
         \cup TokenEnds(text, Tail(toks), SkipSeparators(text, i) + Len(Head(toks)))

\* C27: tokenize never produces a token that ends in an uppercase letter
\* which the input follows with a lowercase letter: such a capital starts the
\* next word, after a long run of capitals as after a single one.
C27_CapitalBeforeLowercaseStartsWord ==
    tokenize_call.called =>
        \A e \in TokenEnds(tokenize_call.text, tokenize_call.returned, 1) :
            ~ /\ e < Len(tokenize_call.text)
              /\ tokenize_call.text[e] \in UpperSet
              /\ tokenize_call.text[e + 1] \in LowerSet

\* the tokens are the input without its separators
TokensCoverText ==
    Flatten(tokenize_call.returned) = FilterChars(tokenize_call.text, IdChars \ {"_"})


(***************************************************************************)
(* The false-friends guard of micro-variant merging (step 1)               *)
(***************************************************************************)
StoryBoard == <<"S","t","o","r","y","B","o","a","r","d">>
StoryBeats == <<"S","t","o","r","y","B","e","a","t","s">>
StoryBeaty == <<"S","t","o","r","y","B","e","a","t","y">>

StoryTale == <<"S","t","o","r","y","T","a","l","e">>

\* roots that share the scope token Story and their first five characters
VariantKeys == {Story, StoryBeat, StoryBoard, StoryBeats, StoryBeaty, StoryTale}

VariantAssignments ==
    [Uids -> {[rule_id |-> "strong_prefix", cluster_key |-> k] : k \in VariantKeys}]

InitVariants ==
    /\ pc = "initialize_roots"
    /\ args = [dry_run |-> FALSE, force_rebuild |-> FALSE,
               accept_legacy_cache |-> FALSE, prune_stale |-> FALSE]
    /\ \E mcs \in {1, 2}, pinned \in {{}, {StoryBeat}, {StoryBeat, StoryBeats}} :
           config = NormalizationConfig(mcs, 40, 250, pinned, FALSE)
    /\ uid_to_item = [u \in Uids |-> GlobalClass(u, StoryEvent)]
    /\ hashseed = 0
    /\ map_file = AbsentFile
    /\ map_file_at_start = map_file
    /\ global_map = NewGlobalNamespaceMap(compute_config_hash(config))
    /\ analyzer = NoAnalysis
    /\ resolver = NewResolver
    /\ global_resolved = EmptyDict
    /\ order = <<>>
    /\ out_files = EmptyDict
    /\ written = 0
    /\ stub_call = NoStubCall
    /\ report = NoReport
    /\ runs = <<>>
    /\ tokenize_call = NoTokenizeCall
    /\ initial_assignments \in VariantAssignments
    /\ original_signals = [u \in Uids |-> <<>>]
    /\ roots = <<>>
    /\ union_find = <<>>
    /\ root_sizes = <<>>
    /\ kept_roots = {}
    /\ final_assignments = <<>>

SpecVariants == InitVariants /\ [][NextNorm]_vars

\* the projected offset of L is a token boundary of the root, whose
\* boundaries are known
AtKnownBoundary(name, L) ==
    /\ ~roots[name].boundaries_unknown
    /\ project_length(roots[name], L) \in roots[name].token_boundaries

\* L / min(len(a), len(b)) >= 0.7
SimilarEnough(name_a, name_b, L) ==
    10 * L >= 7 * (IF Len(name_a) < Len(name_b) THEN Len(name_a) ELSE Len(name_b))

\* the guard as the claim states it
GuardAsClaimed(name_a, name_b, L) ==
    IF roots[name_a].boundaries_unknown /\ roots[name_b].boundaries_unknown
    THEN SimilarEnough(name_a, name_b, L) /\ L >= 7
    ELSE \/ AtKnownBoundary(name_a, L)
         \/ AtKnownBoundary(name_b, L)
         \/ SimilarEnough(name_a, name_b, L)

\* a pair that may be unioned: a common prefix of five characters, not both
\* pinned, passing the guard
Mergeable(name_a, name_b) ==
    /\ name_a # name_b
    /\ CommonPrefixLen(name_a, name_b) >= MIN_PREFIX_LEN
    /\ ~(name_a \in Self.pinned_roots /\ name_b \in Self.pinned_roots)
    /\ GuardAsClaimed(name_a, name_b, CommonPrefixLen(name_a, name_b))

RECURSIVE ReachableBy(_)
\* the roots linked to a root of S by a chain of mergeable pairs
ReachableBy(S) ==
    IF {y \in DOMAIN roots : \E x \in S : Mergeable(x, y)} \subseteq S THEN S
    ELSE ReachableBy(S \cup {y \in DOMAIN roots : \E x \in S : Mergeable(x, y)})

\* C28: in step 1 a pair with common prefix length L passes the false-friends
\* guard exactly when both roots have unknown boundaries, L / min(len) >= 0.7
\* and L >= 7, or one root has known boundaries and the projected offset of L
\* is a token boundary of a root with known boundaries or L / min(len) >= 0.7;
\* and the merging step joins two sets only by a pair that passes the guard,
\* has L >= 5 and is not pinned on both sides.
C28_FalseFriendsGuard ==
    /\ [](pc = "merge_micro_variants" =>
             \A name_a, name_b \in DOMAIN roots :
                 name_a # name_b =>
                     check_false_friends(roots[name_a], roots[name_b],
                                         CommonPrefixLen(name_a, name_b))
                         = GuardAsClaimed(name_a, name_b, CommonPrefixLen(name_a, name_b)))
    /\ [][pc = "merge_micro_variants" =>
             \A name_a, name_b \in DOMAIN roots :
                 find(union_find', name_a) = find(union_find', name_b) =>
                     name_b \in ReachableBy({name_a})]_vars

\* the merging step is over: a pair that passes the guard by similarity
\* alone, its common prefix ending at no token boundary, was unioned, while a
\* pair with six common characters that fails the guard was not
C28_Witness ==
    /\ pc = "apply_merges"
    /\ \E name_a, name_b \in DOMAIN roots :
           /\ name_a # name_b
           /\ find(union_find, name_a) = find(union_find, name_b)
           /\ ~AtKnownBoundary(name_a, CommonPrefixLen(name_a, name_b))
           /\ ~AtKnownBoundary(name_b, CommonPrefixLen(name_a, name_b))
           /\ SimilarEnough(name_a, name_b, CommonPrefixLen(name_a, name_b))
    /\ \E name_a, name_b \in DOMAIN roots :
           /\ CommonPrefixLen(name_a, name_b) >= MIN_PREFIX_LEN
           /\ ~GuardAsClaimed(name_a, name_b, CommonPrefixLen(name_a, name_b))
           /\ find(union_find, name_a) # find(union_find, name_b)

\* the merging step is over: a pair whose common prefix ends at a token
\* boundary of one of its roots, and is less than 0.7 of the shorter name,
\* was unioned
MergedAtBoundary ==
    /\ pc = "apply_merges"
    /\ \E name_a, name_b \in DOMAIN roots :
           /\ name_a # name_b
           /\ find(union_find, name_a) = find(union_find, name_b)
           /\ AtKnownBoundary(name_a, CommonPrefixLen(name_a, name_b))
           /\ ~SimilarEnough(name_a, name_b, CommonPrefixLen(name_a, name_b))


(***************************************************************************)
(* Agreement of the map, the returned results and the resolver             *)
(***************************************************************************)
\* the path the in-memory persistent map records for a uid
RecordedPath(uid) ==
    IF uid \in DOMAIN global_map.mapping THEN global_map.mapping[uid].path ELSE None

\* the three records of a resolved uid name one path
PathsAgree(uid) ==
    /\ uid \in DOMAIN resolver.assigned_paths
    /\ global_resolved[uid].final_path = resolver.assigned_paths[uid]
    /\ RecordedPath(uid) = resolver.assigned_paths[uid]

\* C29: at the end of a run, for every resolved identifier the path recorded
\* in the persistent map, the final_path of the result returned for it and
\* the resolver's assigned path are the same path, also for a file that a
\* later resolve renamed to <parent>_Page.md.
C29_MapResultAndResolverAgree ==
    pc = "done" => \A uid \in DOMAIN global_resolved : PathsAgree(uid)

\* the run has ended with every resolved uid recorded alike in all three
AgreedAtEnd ==
    /\ pc = "done"
    /\ Cardinality(DOMAIN global_resolved) >= 2
    /\ \A uid \in DOMAIN global_resolved : PathsAgree(uid)


(***************************************************************************)
(* What NormalizationPass.run returns                                      *)
(***************************************************************************)
\* the top-level components of the returned keys
ReturnedTopLevels == {TopLevel(final_assignments[u]) : u \in DOMAIN final_assignments}

\* the returned top-level roots that count against the cap
CappedTopLevels == ReturnedTopLevels \ (Self.pinned_roots \cup {MiscKey})

\* C30: run() returns a cluster key for exactly the identifiers of
\* initial_assignments; the top-level component of every returned key is Misc
\* or a representative that is in the kept set; so the distinct non-pinned
\* top-level roots other than Misc number at most max_top_level_folders.
C30_ReturnedKeysWithinKeptSet ==
    pc = "returned" =>
        /\ DOMAIN final_assignments = DOMAIN initial_assignments
        /\ \A top \in ReturnedTopLevels :
               \/ top = MiscKey
               \/ /\ top \in kept_roots
                  /\ top \in DOMAIN union_find
                  /\ find(union_find, top) = top
        /\ Cardinality(CappedTopLevels) <= Self.max_top_level

\* the roots that had enough items after merging to be candidates
DenseRoots ==
    {name \in DOMAIN union_find \ Self.pinned_roots :
        Cardinality(MembersAfterMerging(name)) >= Self.min_cluster_size}

\* run() has returned; more roots were dense enough than the cap admits, the
\* cap is used up, an item of a dropped root was rerouted into a kept root
\* and another went to Misc
C30_Witness ==
    /\ pc = "returned"
    /\ Cardinality(DenseRoots) > Self.max_top_level
    /\ Cardinality(CappedTopLevels) = Self.max_top_level
    /\ Self.max_top_level > 0
    /\ \E u, v \in DOMAIN final_assignments :
          /\ find(union_find, RootNameOf(initial_assignments[u].cluster_key)) \notin kept_roots
          /\ TopLevel(final_assignments[u]) \in kept_roots
          /\ find(union_find, RootNameOf(initial_assignments[v].cluster_key)) \notin kept_roots
          /\ final_assignments[v] = MiscKey

\* run() has returned keys subdivided by the safety valve under a kept root
SubdividedUnderKeptRoot ==
    /\ pc = "returned"
    /\ \E u \in DOMAIN final_assignments :
          /\ final_assignments[u] # TopLevel(final_assignments[u])
          /\ TopLevel(final_assignments[u]) \in kept_roots \ Self.pinned_roots

====
